---- MODULE Spec2Model ----
(***************************************************************************)
(* Verification model of the microcosm hypervisor: its port-I/O devices,   *)
(* its process and threads, its guest memory helpers and its boot path.    *)
(*                                                                         *)
(*   Spec      the 16550A-class UART (microcosm/src/device/serial.rs)      *)
(*             driven by guest register accesses (VCPU threads) and by     *)
(*             queue_rx calls (input thread, cli/src/main.rs).  Every      *)
(*             access runs with the UART mutex held from its first to its  *)
(*             last statement (device.rs:68-74, main.rs:121), so one       *)
(*             access is one atomic action.                                *)
(*   SpecBus   the port-I/O bus (microcosm/src/device.rs): add_device and  *)
(*             the dispatch of guest port reads and writes.                *)
(*   SpecProc  the process (cli/src/main.rs, guest.rs, device/i8042.rs):   *)
(*             VCPU threads, the thread of Guest::run, main's stdin loop.  *)
(*             SpecProcFair adds the fairness of the thread scheduler.     *)
(*   SpecAlloc, SpecCopy   RangeAllocator and copy_to_guest (memory.rs).   *)
(*   SpecLoad  Bootable::load (load.rs) over described kernel images.      *)
(*   SpecBzImage   Bootable::load over bzImage files and the Linux boot    *)
(*             parameters (load.rs), on debug and release builds.          *)
(*   SpecAcpi  configure_acpi (boot.rs), byte by byte.                     *)
(*   SpecLayout   Bootable::configure_memory (boot.rs): the byte ranges    *)
(*             written and the paging entries in them.                     *)
(*   SpecEntry the registers Cpu::run sets before its loop (guest.rs,      *)
(*             boot.rs, load.rs).                                          *)
(*   SpecCpu   the VCPU run loops and the input loop as threads that take  *)
(*             the hub and device locks (guest.rs, device.rs, main.rs).    *)
(*             SpecCpuFair adds the fairness the lock waits need.          *)
(*                                                                         *)
(* Bytes are integers 0..255; a bit test x & m is HasBit(x, m).            *)
(* Environment assumptions: the VM facility's IRQ ioctl (Irq::set_level,   *)
(* guest.rs:293) always succeeds; host stdout may fail on any write.       *)
(***************************************************************************)
EXTENDS Integers, Sequences, FiniteSets, TLC

(***************************************************************************)
(* Bounds of the model.                                                    *)
(***************************************************************************)
\* serial.rs:12 has FIFO_LEN = 64; the model runs the same code with a
\* shorter FIFO so that full FIFOs are reached.
FIFO_LEN == 2
\* longest host-stdout byte sequence that is followed
MaxOut == 3
\* longest sequence of IRQ-line emissions that is followed
MaxEmits == 3

(***************************************************************************)
(* Register offsets and bit masks of sys::serial_reg (the Linux            *)
(* serial_reg.h values).                                                   *)
(***************************************************************************)
UART_RX == 0
UART_TX == 0
UART_IER == 1
UART_IIR == 2
UART_FCR == 2
UART_LCR == 3
UART_MCR == 4
UART_LSR == 5
UART_MSR == 6
UART_SCR == 7
UART_IER_RDI == 1
UART_IER_THRI == 2
UART_IIR_NO_INT == 1
UART_IIR_THRI == 2
UART_IIR_RDI == 4
UART_IIR_FIFO_ENABLED_16550A == 192
UART_FCR_CLEAR_RCVR == 2
UART_FCR_CLEAR_XMIT == 4
UART_LCR_DLAB == 128
UART_MCR_OUT2 == 8
UART_MCR_LOOP == 16
UART_LSR_DR == 1
UART_LSR_BI == 16
UART_LSR_THRE == 32
UART_LSR_TEMT == 64
UART_MSR_CTS == 16
UART_MSR_DSR == 32
UART_MSR_DCD == 128

\* x & m /= 0 for a single-bit mask m
HasBit(x, m) == (x \div m) % 2 = 1
\* x | m for a single-bit mask m
SetBit(x, m) == IF HasBit(x, m) THEN x ELSE x + m
\* x & !m for a single-bit mask m
ClearBit(x, m) == IF HasBit(x, m) THEN x - m ELSE x
\* x | y for bytes
BitOr(x, y) ==
    LET B(b) == IF HasBit(x, b) \/ HasBit(y, b) THEN b ELSE 0
    IN B(1) + B(2) + B(4) + B(8) + B(16) + B(32) + B(64) + B(128)

\* an empty data slice (data.first() is None)
NoData == -1

VARIABLES
    serial,      \* the fields of struct Serial (serial.rs:14-31)
    irq_line,    \* levels emitted with Irq::set_level on the UART's IRQ, oldest first
    stdout,      \* bytes delivered to host stdout, oldest first
    stdoutFailed,\* some stdout write has failed so far
    txWritten,   \* bytes the guest wrote to base+0 with LOOP and DLAB clear,
                 \* followed for as long as no stdout write has failed
    scen         \* progress through "write THRI to IER, then three bytes to base+0"

uartVars == <<serial, irq_line, stdout, stdoutFailed, txWritten, scen>>

VARIABLES
    overflow_checks, \* the build profile: u16 overflow panics (debug) or wraps (release)
    devices,         \* PortIoHub::devices: the port range of each registered device
    panicked,        \* an arithmetic overflow has panicked
    busLast          \* the most recent bus call: its inputs and what it returned

busVars == <<overflow_checks, devices, panicked, busLast>>

\* the process: VCPU threads, the thread of Guest::run, the stdin loop of main
VARIABLES
    cpus,           \* per VCPU thread: "running", "left" (Ok) or "failed" (Err)
    guest_run,      \* the detached thread of main.rs:110 running Guest::run
    input,          \* main's stdin loop: its position, `escape` and `buf[..n]`
    stdin,          \* the bytes stdin.read has returned; where the last chunk began
    queued,         \* the bytes handed to Serial::queue_rx, in order
    process,        \* "running", or how the process ended and its status
    i8042Last       \* the last access to the I8042 device
procVars == <<cpus, guest_run, input, stdin, queued, process, i8042Last>>

\* guest memory helpers (memory.rs)
VARIABLES
    allocator,      \* RangeAllocator: addr, and the allocations handed out
    guestmem        \* a guest memory slice and the last copy_to_guest into it
memVars == <<allocator, guestmem>>

\* the kernel loader (load.rs), the ACPI tables and the boot layout (boot.rs)
VARIABLES
    loaded,         \* the last Bootable::load: the image, and what came back
    acpi,           \* the last configure_acpi: the bytes written, the result
    layout          \* the last configure_memory: the ranges written
bootVars == <<loaded, acpi, layout>>

\* the VCPU threads and the input thread with their locks (guest.rs, main.rs)
VARIABLES
    vcpu,           \* each Cpu::run: its position, the last exit, the result
    reader,         \* main's stdin loop as a holder of the UART lock
    mutex,          \* the holder of every Mutex, NoThread when it is free
    exited,         \* the process has ended
    entry           \* the registers of a VCPU as Cpu::run sets them up
cpuVars == <<vcpu, reader, mutex, exited, entry>>

vars == <<uartVars, busVars, procVars, memVars, bootVars, cpuVars>>

\* Serial::new(0, irq): COM1
base_port == 1016
irq_number == 4

SerialNew ==
    [ irq_state |-> 0,
      dll |-> 0,
      dlm |-> 0,
      iir |-> UART_IIR_NO_INT,
      ier |-> 0,
      fcr |-> 0,
      lcr |-> 0,
      mcr |-> 0,
      lsr |-> UART_LSR_TEMT + UART_LSR_THRE,
      msr |-> UART_MSR_DCD + UART_MSR_DSR + UART_MSR_CTS,
      scr |-> UART_MCR_OUT2,
      rx_buf |-> <<>>,
      tx_buf |-> <<>> ]

\* The running state of one access: the UART (s), the emissions (irq) and
\* the stdout bytes (out) so far, the first byte of the caller's data slice
\* (buf, NoData for an empty slice), whether the access has returned an error
\* (ok = FALSE), and the host's behaviour: the failAt-th flush of stdout in
\* this access fails (0: none does); nflush counts the flushes made.
Machine(s, irq, out, buf, failAt) ==
    [s |-> s, irq |-> irq, out |-> out, buf |-> buf, ok |-> TRUE,
     failAt |-> failAt, nflush |-> 0]

\* flush_tx that forgets to raise LSR.TEMT and LSR.THRE
flush_tx_KeepsLsr(m) ==
    LET m1 == [m EXCEPT !.nflush = @ + 1]
    IN IF m1.nflush /= m1.failAt
       THEN [m1 EXCEPT !.out = @ \o m1.s.tx_buf,
                       !.s.tx_buf = <<>>]
       ELSE [m1 EXCEPT !.ok = FALSE]

\* Serial::flush_tx.  A failed stdout write delivers nothing and returns
\* before tx_buf.clear().
flush_tx(m) ==
    LET m1 == [m EXCEPT !.s.lsr = SetBit(SetBit(@, UART_LSR_TEMT), UART_LSR_THRE),
                        !.nflush = @ + 1]
    IN IF m1.nflush /= m1.failAt
       THEN [m1 EXCEPT !.out = @ \o m1.s.tx_buf,
                       !.s.tx_buf = <<>>]
       ELSE [m1 EXCEPT !.ok = FALSE]

\* the IIR flags composed at serial.rs:94-100
ComposeIir(s) ==
    (IF HasBit(s.ier, UART_IER_RDI) /\ HasBit(s.lsr, UART_LSR_DR)
        THEN UART_IIR_RDI ELSE 0)
    + (IF HasBit(s.ier, UART_IER_THRI) /\ HasBit(s.lsr, UART_LSR_TEMT)
        THEN UART_IIR_THRI ELSE 0)

\* DriveIrq that drives the line on every call, with no look at irq_state
DriveIrq_NoSuppress(m, iir) ==
    IF iir /= 0
    THEN [m EXCEPT !.s.iir = iir,
                   !.irq = Append(@, TRUE),
                   !.s.irq_state = iir]
    ELSE [m EXCEPT !.s.iir = UART_IIR_NO_INT,
                   !.irq = Append(@, FALSE),
                   !.s.irq_state = iir]

\* serial.rs:101-112: store IIR, emit a level only when it changes
DriveIrq(m, iir) ==
    IF iir /= 0
    THEN [m EXCEPT !.s.iir = iir,
                   !.irq = IF m.s.irq_state = 0 THEN Append(@, TRUE) ELSE @,
                   !.s.irq_state = iir]
    ELSE [m EXCEPT !.s.iir = UART_IIR_NO_INT,
                   !.irq = IF m.s.irq_state /= 0 THEN Append(@, FALSE) ELSE @,
                   !.s.irq_state = iir]

\* the FIFO clears that leave LSR.DR as it is
ClearFifos_KeepsDr(s) ==
    LET s1 == IF HasBit(s.lcr, UART_FCR_CLEAR_RCVR)
              THEN [s EXCEPT !.lcr = ClearBit(@, UART_FCR_CLEAR_RCVR),
                             !.rx_buf = <<>>]
              ELSE s
    IN IF HasBit(s1.lcr, UART_FCR_CLEAR_XMIT)
       THEN [s1 EXCEPT !.lcr = ClearBit(@, UART_FCR_CLEAR_XMIT),
                       !.tx_buf = <<>>,
                       !.lsr = SetBit(SetBit(@, UART_LSR_TEMT), UART_LSR_THRE)]
       ELSE s1

\* serial.rs:82-92: the clear-RCVR / clear-XMIT bits are looked up in LCR
ClearFifos(s) ==
    LET s1 == IF HasBit(s.lcr, UART_FCR_CLEAR_RCVR)
              THEN [s EXCEPT !.lcr = ClearBit(@, UART_FCR_CLEAR_RCVR),
                             !.rx_buf = <<>>,
                             !.lsr = ClearBit(@, UART_LSR_DR)]
              ELSE s
    IN IF HasBit(s1.lcr, UART_FCR_CLEAR_XMIT)
       THEN [s1 EXCEPT !.lcr = ClearBit(@, UART_FCR_CLEAR_XMIT),
                       !.tx_buf = <<>>,
                       !.lsr = SetBit(SetBit(@, UART_LSR_TEMT), UART_LSR_THRE)]
       ELSE s1

\* update_irq that composes the IIR flags before it clears the FIFOs
update_irq_ClearsLate(m) ==
    LET m1 == DriveIrq(m, ComposeIir(m.s))
        m2 == [m1 EXCEPT !.s = ClearFifos(m1.s)]
    IN IF ~HasBit(m2.s.ier, UART_IER_THRI) THEN flush_tx(m2) ELSE m2

\* Serial::update_irq
update_irq(m) ==
    LET m1 == [m EXCEPT !.s = ClearFifos(m.s)]
        m2 == DriveIrq(m1, ComposeIir(m1.s))
    IN IF ~HasBit(m2.s.ier, UART_IER_THRI) THEN flush_tx(m2) ELSE m2

\* queue_rx that does not look at MCR.LOOP
queue_rx_IgnoresLoop(m, data) ==
    LET m1 == IF Len(m.s.rx_buf) < FIFO_LEN
              THEN [m EXCEPT !.s.rx_buf = Append(@, data),
                             !.s.lsr = SetBit(@, UART_LSR_DR)]
              ELSE m
    IN update_irq(m1)

\* Serial::queue_rx
queue_rx(m, data) ==
    LET m1 == IF ~HasBit(m.s.mcr, UART_MCR_LOOP) /\ Len(m.s.rx_buf) < FIFO_LEN
              THEN [m EXCEPT !.s.rx_buf = Append(@, data),
                             !.s.lsr = SetBit(@, UART_LSR_DR)]
              ELSE m
    IN update_irq(m1)

\* Serial::read
Serial_read(m, port) ==
    LET off == port - base_port
        s == m.s
        m1 == CASE off = UART_RX /\ HasBit(s.lcr, UART_LCR_DLAB) -> [m EXCEPT !.buf = s.dll]
                [] off = UART_RX /\ s.rx_buf = <<>> -> m
                [] off = UART_RX /\ HasBit(s.lsr, UART_LSR_BI) ->
                       [m EXCEPT !.s.lsr = ClearBit(@, UART_LSR_BI), !.buf = 0]
                [] off = UART_RX ->
                       [m EXCEPT !.buf = Head(s.rx_buf),
                                 !.s.rx_buf = Tail(@),
                                 !.s.lsr = IF Tail(s.rx_buf) = <<>>
                                           THEN ClearBit(@, UART_LSR_DR) ELSE @]
                [] off = UART_IER /\ HasBit(s.lcr, UART_LCR_DLAB) -> [m EXCEPT !.buf = s.dlm]
                [] off = UART_IER -> [m EXCEPT !.buf = s.ier]
                [] off = UART_IIR ->
                       [m EXCEPT !.buf = BitOr(s.iir, UART_IIR_FIFO_ENABLED_16550A)]
                [] off = UART_LCR -> [m EXCEPT !.buf = s.lcr]
                [] off = UART_MCR -> [m EXCEPT !.buf = s.mcr]
                [] off = UART_LSR -> [m EXCEPT !.buf = s.lsr]
                [] off = UART_MSR -> [m EXCEPT !.buf = s.msr]
                [] off = UART_SCR -> [m EXCEPT !.buf = s.scr]
                [] OTHER -> m
    IN IF m.buf = NoData THEN m ELSE update_irq(m1)

\* the UART_TX arm of Serial::write taken under MCR.LOOP (serial.rs:164-169)
WriteLoopback(m, data) ==
    IF Len(m.s.rx_buf) < FIFO_LEN
    THEN [m EXCEPT !.s.rx_buf = Append(@, data),
                   !.s.lsr = SetBit(@, UART_LSR_DR)]
    ELSE m

\* the TX arm that leaves the byte in the TX FIFO for update_irq to flush
WriteTx_NoFlush(m, data) ==
    LET n == Len(m.s.tx_buf) + 1
    IN [m EXCEPT !.s.tx_buf = Append(@, data),
                 !.s.lsr = LET l == ClearBit(@, UART_LSR_TEMT)
                           IN IF n = FIFO_LEN \div 2
                              THEN ClearBit(l, UART_LSR_THRE) ELSE l]

\* the UART_TX arm of Serial::write that stores into the TX FIFO (serial.rs:170-177)
WriteTx(m, data) ==
    LET n == Len(m.s.tx_buf) + 1
        m1 == [m EXCEPT !.s.tx_buf = Append(@, data),
                        !.s.lsr = LET l == ClearBit(@, UART_LSR_TEMT)
                                  IN IF n = FIFO_LEN \div 2
                                     THEN ClearBit(l, UART_LSR_THRE) ELSE l]
    IN flush_tx(m1)

\* Serial::write
Serial_write(m, port, data) ==
    LET off == port - base_port
        s == m.s
        m1 == CASE off = UART_TX /\ HasBit(s.lcr, UART_LCR_DLAB) -> [m EXCEPT !.s.dll = data]
                [] off = UART_TX /\ HasBit(s.mcr, UART_MCR_LOOP) -> WriteLoopback(m, data)
                [] off = UART_TX /\ Len(s.tx_buf) < FIFO_LEN -> WriteTx(m, data)
                [] off = UART_TX ->
                       [m EXCEPT !.s.lsr = ClearBit(ClearBit(@, UART_LSR_TEMT), UART_LSR_THRE)]
                [] off = UART_IER /\ HasBit(s.lcr, UART_LCR_DLAB) -> [m EXCEPT !.s.dlm = data]
                [] off = UART_IER -> [m EXCEPT !.s.ier = data % 16]
                [] off = UART_FCR -> [m EXCEPT !.s.fcr = data]
                [] off = UART_LCR -> [m EXCEPT !.s.lcr = data]
                [] off = UART_MCR -> [m EXCEPT !.s.mcr = data]
                [] off = UART_SCR -> [m EXCEPT !.s.scr = data]
                [] OTHER -> m
    IN IF data = NoData THEN m
       ELSE IF ~m1.ok THEN m1
       ELSE update_irq(m1)

(***************************************************************************)
(* The UART under its callers.                                             *)
(***************************************************************************)
\* the eight ports the UART claims (Serial::port_range, serial.rs:123-125)
UartPorts == base_port .. (base_port + 7)

\* bytes the guest sends (base+0 with DLAB clear): 'H', 'i'
TxData == {72, 105}
\* bytes the input thread queues
RxData == {72, 105}
\* Bytes the guest writes to base+off; dlab is LCR.DLAB at the time.  The
\* registers the code stores and never uses in a decision (DLL, DLM, FCR,
\* SCR) are rewritten with the value they hold after Serial::new.  The LCR
\* bytes are 0, the two bits update_irq looks for (0x06), and DLAB.
WriteData(off, dlab) ==
    CASE off = UART_TX -> IF dlab THEN {0} ELSE TxData
      [] off = UART_IER -> IF dlab THEN {0} ELSE {0, 1, 2, 19}
      [] off = UART_FCR -> {0}
      [] off = UART_LCR -> {0, 6, 128}
      [] off = UART_MCR -> {0, 16}
      [] off = UART_SCR -> {8}
      [] OTHER -> {0}
\* Ports the guest reads.  A read of any register but RX changes the UART
\* only through the update_irq that ends it, so RX, IIR and LSR stand for all.
ReadPorts == {base_port + UART_RX, base_port + UART_IIR, base_port + UART_LSR}
\* content of the guest's data buffer before a read
ReadBuf == {170}
\* which flush of an access fails (0: none); an access flushes at most twice
FailAt == 0 .. 2

UartInit ==
    /\ serial = SerialNew
    /\ irq_line = <<>>
    /\ stdout = <<>>
    /\ stdoutFailed = FALSE
    /\ txWritten = <<>>
    /\ scen = 0

\* the effects of one finished access on the UART and on the host
Commit(m, tx) ==
    /\ m.failAt <= m.nflush
    /\ Len(m.irq) <= MaxEmits
    /\ Len(m.out) <= MaxOut
    /\ serial' = m.s
    /\ irq_line' = m.irq
    /\ stdout' = m.out
    /\ stdoutFailed' = (stdoutFailed \/ ~m.ok)
    /\ txWritten' = IF stdoutFailed \/ ~m.ok THEN <<>>
                    ELSE IF tx = NoData THEN txWritten
                    ELSE Append(txWritten, tx)
    /\ Len(txWritten') <= MaxOut

\* A VCPU thread's port read reaches Serial::read (guest.rs:225, device.rs:68-70).
GuestRead(port, buf, failAt) ==
    LET m == Serial_read(Machine(serial, irq_line, stdout, buf, failAt), port)
    IN /\ Commit(m, NoData)
       /\ scen' = -1

\* A VCPU thread's port write reaches Serial::write (guest.rs:226, device.rs:72-74).
GuestWrite(port, data, failAt) ==
    LET m == Serial_write(Machine(serial, irq_line, stdout, data, failAt), port, data)
        off == port - base_port
        tx == IF /\ off = UART_TX
                 /\ ~HasBit(serial.lcr, UART_LCR_DLAB)
                 /\ ~HasBit(serial.mcr, UART_MCR_LOOP)
              THEN data ELSE NoData
    IN /\ Commit(m, tx)
       /\ scen' = IF scen = 0 /\ off = UART_IER /\ data = UART_IER_THRI /\ m.ok THEN 1
                  ELSE IF scen \in 1..3 /\ off = UART_TX /\ data /= NoData /\ m.ok
                       THEN scen + 1
                  ELSE -1

\* The input thread hands one stdin byte to Serial::queue_rx (main.rs:121-132).
QueueRx(data, failAt) ==
    LET m == queue_rx(Machine(serial, irq_line, stdout, data, failAt), data)
    IN /\ Commit(m, NoData)
       /\ scen' = -1

UartRead ==
    /\ \E port \in ReadPorts, failAt \in FailAt :
          \E buf \in ReadBuf \cup (IF port = base_port THEN {NoData} ELSE {}) :
              GuestRead(port, buf, failAt)
    /\ UNCHANGED <<busVars, procVars, memVars, bootVars, cpuVars>>
UartWrite ==
    /\ \E port \in UartPorts, failAt \in FailAt :
          \E data \in WriteData(port - base_port, HasBit(serial.lcr, UART_LCR_DLAB))
                        \cup (IF port = base_port THEN {NoData} ELSE {}) :
              GuestWrite(port, data, failAt)
    /\ UNCHANGED <<busVars, procVars, memVars, bootVars, cpuVars>>
UartQueueRx ==
    /\ \E data \in RxData, failAt \in FailAt : QueueRx(data, failAt)
    /\ UNCHANGED <<busVars, procVars, memVars, bootVars, cpuVars>>

(***************************************************************************)
(* The port-I/O bus (device.rs).  Ports and lengths are u16.               *)
(***************************************************************************)
U16 == 65536
\* a + b on u16 where the build wraps
AddU16(a, b) == (a + b) % U16
\* a + b on u16 overflows
Overflows(a, b) == a + b >= U16

\* impl From<RangeInclusive<u16>> for PortRange
PortRangeFrom(start, end) == [base |-> start, len |-> (end - start + 1) % U16]

\* PortRange::contains
contains(r, port) == r.base <= port /\ port < AddU16(r.base, r.len)
\* PortRange::contains reaches an overflowing base + len
containsOverflows(r, port) == r.base <= port /\ Overflows(r.base, r.len)

\* PortRange::overlaps
overlaps(r, other) ==
    r.base < AddU16(other.base, other.len) /\ other.base < AddU16(r.base, r.len)
\* PortRange::overlaps reaches an overflowing base + len
overlapsOverflows(r, other) ==
    \/ Overflows(other.base, other.len)
    \/ r.base < other.base + other.len /\ Overflows(r.base, r.len)

\* index of the first registered device at which a loop over the devices
\* stops, given the set of indices where it would stop (0: it runs to the end)
FirstStop(stops) ==
    IF stops = {} THEN 0 ELSE CHOOSE i \in stops : \A j \in stops : i <= j

\* PortIoHub::add_device: what it returns ("Ok", "DeviceRangeOverlap", or
\* "panic" when it does not return) and the device sequence it leaves
add_device(range) ==
    LET Ovf(i) == overflow_checks /\ overlapsOverflows(range, devices[i])
        i == FirstStop({j \in 1 .. Len(devices) : Ovf(j) \/ overlaps(range, devices[j])})
    IN IF i = 0 THEN [ret |-> "Ok", devices |-> Append(devices, range)]
       ELSE IF Ovf(i) THEN [ret |-> "panic", devices |-> devices]
       ELSE [ret |-> "DeviceRangeOverlap", devices |-> devices]

\* the loop of PortIoHub::read and PortIoHub::write: the device the access
\* is handed to, NoDevice, or Panics
NoDevice == 0
Panics == -1
Dispatch(port) ==
    LET Ovf(i) == overflow_checks /\ containsOverflows(devices[i], port)
        i == FirstStop({j \in 1 .. Len(devices) : Ovf(j) \/ contains(devices[j], port)})
    IN IF i /= 0 /\ Ovf(i) THEN Panics ELSE i

\* ranges offered to add_device, as start..=end: the i8042 (0x60..=0x64),
\* the RTC (0x70..=0x71), a device at 0x64..=0x67, and two devices at the
\* top of the port space (0xfff8..=0xffff, 0xfffc..=0xffff)
DevRanges ==
    { PortRangeFrom(96, 100), PortRangeFrom(112, 113), PortRangeFrom(100, 103),
      PortRangeFrom(65528, 65535), PortRangeFrom(65532, 65535) }
\* ports the guest accesses
BusPorts == {95, 96, 100, 101, 103, 113, 65527, 65528, 65532, 65535}
\* what a device's handler returns
HandlerResults == {"Ok", "Err"}
\* the data byte of a bus access, and the byte a read handler may store
BusData == {170}
HandlerData == {170, 7}
\* most devices registered in one run
MaxDevices == 3

BusInit ==
    /\ overflow_checks \in BOOLEAN
    /\ devices = <<>>
    /\ panicked = FALSE
    /\ busLast = [op |-> "new", port |-> 0, range |-> PortRangeFrom(0, 0),
                  ret |-> "Ok", hres |-> "Ok", called |-> <<>>, bufIn |-> NoData,
                  bufOut |-> NoData]

\* Guest::add_device -> PortIoHub::add_device
AddDevice(range) ==
    LET r == add_device(range)
    IN /\ ~panicked
       /\ Len(devices) < MaxDevices
       /\ devices' = r.devices
       /\ panicked' = (r.ret = "panic")
       /\ busLast' = [op |-> "add_device", port |-> 0, range |-> range, ret |-> r.ret,
                      hres |-> "Ok", called |-> <<>>, bufIn |-> NoData, bufOut |-> NoData]
       /\ UNCHANGED overflow_checks

\* PortIoHub::read; the handler reached returns hres and leaves hbuf in the buffer
Hub_read(port, buf, hres, hbuf) ==
    LET i == Dispatch(port)
    IN /\ ~panicked
       /\ panicked' = (i = Panics)
       /\ busLast' = [op |-> "read", port |-> port, range |-> PortRangeFrom(0, 0),
                      ret |-> IF i = Panics THEN "panic" ELSE IF i = NoDevice THEN "Ok" ELSE hres,
                      hres |-> hres,
                      called |-> IF i \in {Panics, NoDevice} THEN <<>> ELSE <<i>>,
                      bufIn |-> buf,
                      bufOut |-> IF i \in {Panics, NoDevice} THEN buf ELSE hbuf]
       /\ UNCHANGED <<overflow_checks, devices>>

\* PortIoHub::write; the handler reached returns hres
Hub_write(port, data, hres) ==
    LET i == Dispatch(port)
    IN /\ ~panicked
       /\ panicked' = (i = Panics)
       /\ busLast' = [op |-> "write", port |-> port, range |-> PortRangeFrom(0, 0),
                      ret |-> IF i = Panics THEN "panic" ELSE IF i = NoDevice THEN "Ok" ELSE hres,
                      hres |-> hres,
                      called |-> IF i \in {Panics, NoDevice} THEN <<>> ELSE <<i>>,
                      bufIn |-> data,
                      bufOut |-> data]
       /\ UNCHANGED <<overflow_checks, devices>>

BusAddDevice ==
    /\ \E range \in DevRanges : AddDevice(range)
    /\ UNCHANGED <<uartVars, procVars, memVars, bootVars, cpuVars>>
BusRead ==
    /\ \E port \in BusPorts, buf \in BusData, hres \in HandlerResults, hbuf \in HandlerData :
          Hub_read(port, buf, hres, hbuf)
    /\ UNCHANGED <<uartVars, procVars, memVars, bootVars, cpuVars>>
BusWrite ==
    /\ \E port \in BusPorts, data \in BusData, hres \in HandlerResults :
          Hub_write(port, data, hres)
    /\ UNCHANGED <<uartVars, procVars, memVars, bootVars, cpuVars>>

(***************************************************************************)
(* The process (cli/src/main.rs, guest.rs, device/i8042.rs): the VCPU      *)
(* threads, the detached thread that runs Guest::run, and main's stdin     *)
(* loop.  Returning from main, or std::process::exit, ends the process     *)
(* and every thread with it.                                               *)
(***************************************************************************)
NumCpus == 2        \* GuestBuilder::num_cpus
BufLen == 2         \* stands for the 1024 bytes of `buf`
MaxStdin == 3       \* bytes the terminal delivers in one run

I8042_DATA_REG == 96        \* 0x60
I8042_COMMAND_REG == 100    \* 0x64
I8042_CMD_SYSTEM_RESET == 254   \* 0xfe
CTRL_A == 1
LetterX == 120      \* b'x'

I8042_port_range == PortRangeFrom(I8042_DATA_REG, I8042_COMMAND_REG)

I8042_read(port, buf) == [ret |-> "Ok", exit |-> FALSE, buf |-> buf]

I8042_write_AnyPort(port, data) ==
    IF data # <<>> /\ Head(data) = I8042_CMD_SYSTEM_RESET
    THEN [ret |-> "never", exit |-> TRUE, buf |-> data]
    ELSE [ret |-> "Ok", exit |-> FALSE, buf |-> data]
\* std::process::exit(0) does not return: ret is "never"
I8042_write(port, data) ==
    IF port = I8042_COMMAND_REG /\ data # <<>>
       /\ Head(data) = I8042_CMD_SYSTEM_RESET
    THEN [ret |-> "never", exit |-> TRUE, buf |-> data]
    ELSE [ret |-> "Ok", exit |-> FALSE, buf |-> data]

InputStep_KeepsFlag(escape, b) ==
    IF ~escape /\ b = CTRL_A THEN [do |-> "continue", escape |-> TRUE]
    ELSE IF escape /\ b = LetterX THEN [do |-> "break", escape |-> escape]
    ELSE [do |-> "queue_rx", escape |-> escape]
\* one iteration of `for &b in &buf[..n]`
InputStep(escape, b) ==
    IF ~escape /\ b = CTRL_A THEN [do |-> "continue", escape |-> TRUE]
    ELSE IF escape /\ b = LetterX THEN [do |-> "break", escape |-> escape]
    ELSE [do |-> "queue_rx", escape |-> FALSE]

Running == process.state = "running"
Exited(status, by) == [state |-> "exited", status |-> status, by |-> by]

I8042Ports == {p \in 0 .. 65535 : contains(I8042_port_range, p)}
I8042Data == {<<I8042_CMD_SYSTEM_RESET>>, <<I8042_CMD_SYSTEM_RESET, 0>>,
              <<0, I8042_CMD_SYSTEM_RESET>>}
I8042Bufs == {<<0>>}
StdinBytes == {CTRL_A, LetterX, 97}
Chunks == UNION {[1 .. n -> StdinBytes] : n \in 1 .. BufLen}
QueueRxResults == {"Ok", "Err"}
ReadEnds == {"Ok(0)", "WouldBlock", "Err"}

ProcInit ==
    /\ cpus = [i \in 1 .. NumCpus |-> "running"]
    /\ guest_run = [pc |-> "join", next |-> 1, ret |-> "none"]
    /\ input = [pc |-> "read", escape |-> FALSE, buf |-> <<>>]
    /\ stdin = [bytes |-> <<>>, chunkStart |-> 0]
    /\ queued = <<>>
    /\ process = [state |-> "running", status |-> 0, by |-> "none"]
    /\ i8042Last = [op |-> "none", port |-> 0, data |-> <<>>, ret |-> "Ok",
                    bufOut |-> <<>>]

\* Cpu::run, KVM_EXIT_IO with KVM_EXIT_IO_OUT on a port of the I8042
CpuI8042Write ==
    \E i \in 1 .. NumCpus, port \in I8042Ports, data \in I8042Data :
        /\ Running /\ cpus[i] = "running"
        /\ LET r == I8042_write(port, data) IN
              /\ i8042Last' = [op |-> "write", port |-> port, data |-> data,
                               ret |-> r.ret, bufOut |-> r.buf]
              /\ process' = IF r.exit THEN Exited(0, "i8042") ELSE process
        /\ UNCHANGED <<cpus, guest_run, input, stdin, queued>>
        /\ UNCHANGED <<uartVars, busVars, memVars, bootVars, cpuVars>>

\* Cpu::run, KVM_EXIT_IO with KVM_EXIT_IO_IN on a port of the I8042
CpuI8042Read ==
    \E i \in 1 .. NumCpus, port \in I8042Ports, buf \in I8042Bufs :
        /\ Running /\ cpus[i] = "running"
        /\ LET r == I8042_read(port, buf) IN
              i8042Last' = [op |-> "read", port |-> port, data |-> buf,
                            ret |-> r.ret, bufOut |-> r.buf]
        /\ UNCHANGED <<cpus, guest_run, input, stdin, queued, process>>
        /\ UNCHANGED <<uartVars, busVars, memVars, bootVars, cpuVars>>

\* Cpu::run: KVM_EXIT_HLT, KVM_EXIT_SHUTDOWN or KVM_EXIT_INTERNAL_ERROR
\* break the loop; a failed ioctl or device handler returns the error
CpuLeave ==
    \E i \in 1 .. NumCpus, how \in {"left", "failed"} :
        /\ Running /\ cpus[i] = "running"
        /\ cpus' = [cpus EXCEPT ![i] = how]
        /\ UNCHANGED <<guest_run, input, stdin, queued, process, i8042Last>>
        /\ UNCHANGED <<uartVars, busVars, memVars, bootVars, cpuVars>>

\* Guest::run: `for cpu in cpus { cpu?.join().unwrap()?; }`; the closure of
\* main.rs:110 drops what it returns
GuestRunJoin ==
    /\ Running /\ guest_run.pc = "join"
    /\ cpus[guest_run.next] # "running"
    /\ guest_run' =
          IF cpus[guest_run.next] = "failed"
          THEN [pc |-> "returned", next |-> guest_run.next, ret |-> "Err"]
          ELSE IF guest_run.next = NumCpus
          THEN [pc |-> "returned", next |-> guest_run.next, ret |-> "Ok"]
          ELSE [guest_run EXCEPT !.next = @ + 1]
    /\ UNCHANGED <<cpus, input, stdin, queued, process, i8042Last>>
    /\ UNCHANGED <<uartVars, busVars, memVars, bootVars, cpuVars>>

\* main: stdin.read(&mut buf) returns Ok(n) with n > 0
StdinRead ==
    \E chunk \in Chunks :
        /\ Running /\ input.pc = "read"
        /\ Len(stdin.bytes) + Len(chunk) <= MaxStdin
        /\ stdin' = [bytes |-> stdin.bytes \o chunk,
                     chunkStart |-> Len(stdin.bytes)]
        /\ input' = [input EXCEPT !.pc = "loop", !.buf = chunk]
        /\ UNCHANGED <<cpus, guest_run, queued, process, i8042Last>>
        /\ UNCHANGED <<uartVars, busVars, memVars, bootVars, cpuVars>>

\* main: stdin.read returns Ok(0), one of the three kinds that break the
\* loop, or another error, which main returns
StdinEnd ==
    \E how \in ReadEnds :
        /\ Running /\ input.pc = "read"
        /\ input' = [input EXCEPT !.pc = "returned"]
        /\ process' = IF how = "Err" THEN Exited(1, "read_err")
                      ELSE Exited(0, "eof")
        /\ UNCHANGED <<cpus, guest_run, stdin, queued, i8042Last>>
        /\ UNCHANGED <<uartVars, busVars, memVars, bootVars, cpuVars>>

\* main: one byte of the chunk, under the serial lock
InputByte ==
    \E qres \in QueueRxResults :
        /\ Running /\ input.pc = "loop"
        /\ LET b == Head(input.buf)
               rest == Tail(input.buf)
               st == InputStep(input.escape, b)
           IN  CASE st.do = "continue" ->
                      /\ input' = [pc |-> IF rest = <<>> THEN "read" ELSE "loop",
                                   escape |-> st.escape, buf |-> rest]
                      /\ qres = "Ok"
                      /\ UNCHANGED <<queued, process>>
                 [] st.do = "break" ->
                      /\ input' = [pc |-> "returned", escape |-> st.escape,
                                   buf |-> rest]
                      /\ qres = "Ok"
                      /\ process' = Exited(0, "escape")
                      /\ UNCHANGED queued
                 [] st.do = "queue_rx" /\ qres = "Ok" ->
                      /\ input' = [pc |-> IF rest = <<>> THEN "read" ELSE "loop",
                                   escape |-> st.escape, buf |-> rest]
                      /\ queued' = Append(queued, b)
                      /\ UNCHANGED process
                 [] st.do = "queue_rx" /\ qres = "Err" ->
                      /\ input' = [pc |-> "returned", escape |-> st.escape,
                                   buf |-> rest]
                      /\ process' = Exited(1, "queue_rx_err")
                      /\ UNCHANGED queued
        /\ UNCHANGED <<cpus, guest_run, stdin, i8042Last>>
        /\ UNCHANGED <<uartVars, busVars, memVars, bootVars, cpuVars>>

(***************************************************************************)
(* Guest memory helpers (memory.rs).                                       *)
(***************************************************************************)
AddrWrap == 4096    \* stands for 2^64, where u64 arithmetic wraps
MaxAllocs == 3      \* allocations made on one RangeAllocator
MemLen == 3         \* bytes of the guest memory slice
MaxCopy == 2        \* longest byte string copied

\* u64::next_multiple_of, before the wrap at 2^64
next_multiple_of(x, align) ==
    IF x % align = 0 THEN x ELSE x + (align - (x % align))

RangeAllocator_new(start) == [addr |-> start, log |-> <<>>]

raw_alloc_NoRoundUp(a, size, align) ==
    [addr |-> (a.addr + size) % AddrWrap,
     log |-> Append(a.log, [addr |-> a.addr, size |-> size, align |-> align])]
\* RangeAllocator::raw_alloc; `log` keeps what was returned, in order
raw_alloc(a, size, align) ==
    LET addr == next_multiple_of(a.addr, align) % AddrWrap IN
    [addr |-> (addr + size) % AddrWrap,
     log |-> Append(a.log, [addr |-> addr, size |-> size, align |-> align])]

\* RangeAllocator::alloc::<T>, with T given by its size and alignment
alloc(a, T) == raw_alloc(a, T.size, T.align)

\* RangeAllocator::alloc_array::<T>
alloc_array(a, T, count) == raw_alloc(a, (T.size * count) % AddrWrap, T.align)

\* the bytes of `memory` from index lo (0-based) up to hi, exclusive
Slice(memory, lo, hi) == SubSeq(memory, lo + 1, hi)

copy_to_guest_Partial(bytes, memory, addr) ==
    IF addr > Len(memory) THEN [ret |-> "OutOfGuestMemory", memory |-> memory]
    ELSE IF Len(bytes) > Len(memory) - addr
    THEN [ret |-> "OutOfGuestMemory",
          memory |-> Slice(memory, 0, addr)
                     \o Slice(bytes, 0, Len(memory) - addr)]
    ELSE [ret |-> "Ok",
          memory |-> Slice(memory, 0, addr) \o bytes
                     \o Slice(memory, addr + Len(bytes), Len(memory))]
\* CopyToGuest::copy_to_guest: memory.get_mut(addr..), then write_to_prefix
copy_to_guest(bytes, memory, addr) ==
    IF addr > Len(memory) THEN [ret |-> "OutOfGuestMemory", memory |-> memory]
    ELSE IF Len(bytes) > Len(memory) - addr
    THEN [ret |-> "OutOfGuestMemory", memory |-> memory]
    ELSE [ret |-> "Ok",
          memory |-> Slice(memory, 0, addr) \o bytes
                     \o Slice(memory, addr + Len(bytes), Len(memory))]

\* Rust types as the allocator sees them: the size is a multiple of the
\* alignment, the alignment a power of two
AllocTypes == {[size |-> 1, align |-> 1], [size |-> 24, align |-> 8],
               [size |-> 6, align |-> 2]}
AllocStarts == {0, 5, 16}
RawSizes == {0, 3}
RawAligns == {1, 16, 3}
ArrayCounts == {0, 3}
CopyBytes == UNION {[1 .. n -> {1, 2}] : n \in 0 .. MaxCopy}
CopyAddrs == 0 .. MemLen + 2

AllocInit == \E start \in AllocStarts : allocator = RangeAllocator_new(start)
AllocIdle == allocator = RangeAllocator_new(0)

CopyInit ==
    guestmem = [memory |-> [i \in 1 .. MemLen |-> 0],
                before |-> [i \in 1 .. MemLen |-> 0],
                bytes |-> <<>>, addr |-> 0, ret |-> "none"]
CopyIdle ==
    guestmem = [memory |-> <<>>, before |-> <<>>, bytes |-> <<>>,
                addr |-> 0, ret |-> "none"]

MemRawAlloc ==
    /\ Len(allocator.log) < MaxAllocs
    /\ \E size \in RawSizes, align \in RawAligns :
          allocator' = raw_alloc(allocator, size, align)
    /\ UNCHANGED <<guestmem, uartVars, busVars, procVars, bootVars, cpuVars>>

MemAlloc ==
    /\ Len(allocator.log) < MaxAllocs
    /\ \E T \in AllocTypes : allocator' = alloc(allocator, T)
    /\ UNCHANGED <<guestmem, uartVars, busVars, procVars, bootVars, cpuVars>>

MemAllocArray ==
    /\ Len(allocator.log) < MaxAllocs
    /\ \E T \in AllocTypes, count \in ArrayCounts :
          allocator' = alloc_array(allocator, T, count)
    /\ UNCHANGED <<guestmem, uartVars, busVars, procVars, bootVars, cpuVars>>

MemCopyToGuest ==
    /\ \E bytes \in CopyBytes, addr \in CopyAddrs :
          LET r == copy_to_guest(bytes, guestmem.memory, addr) IN
          guestmem' = [memory |-> r.memory, before |-> guestmem.memory,
                       bytes |-> bytes, addr |-> addr, ret |-> r.ret]
    /\ UNCHANGED <<allocator, uartVars, busVars, procVars, bootVars, cpuVars>>

(***************************************************************************)
(* The kernel loader (load.rs).  A kernel image is described by what the   *)
(* loader looks at: the ELF class of a valid ELF header, the PT_LOAD       *)
(* segments, the Xen note, the Multiboot magic and the bzImage setup       *)
(* header.  Guest memory is described by its length; addresses and sizes   *)
(* are in bytes.  The p_offset and p_filesz of every segment, the notes    *)
(* and the setup sectors lie inside the image file.                        *)
(***************************************************************************)
MaxSegs == 2                    \* PT_LOAD segments of an image
HIGH_MEMORY_START == 1048576    \* 0x10_0000
LoadMemSize == 2097152          \* memory.len(): 2 MiB
CmdlineSize == 255              \* default_setup_header().cmdline_size
BootParamsSize == 4096          \* size_of::<boot_params>()
StartInfoSize == 56             \* size_of::<hvm_start_info>()
MemmapEntrySize == 24           \* size_of::<hvm_memmap_table_entry>()
MultibootInfoSize == 120        \* size_of::<multiboot_info_t>()
MultibootMmapSize == 24         \* size_of::<multiboot_memory_map_t>()
SETUP_HEADER_MAGIC == 1400005704    \* 0x5372_6448, "HdrS"

LoadOk(protocol) == [ret |-> "Ok", protocol |-> protocol, err |-> "none"]
LoadErr(err) == [ret |-> "Err", protocol |-> "none", err |-> err]
LoadPanic == [ret |-> "panic", protocol |-> "none", err |-> "none"]

\* whether copy_to_guest of n bytes to addr fails
CopyFails(n, addr, memsize) == addr > memsize \/ n > memsize - addr

\* the PT_LOAD loop of load_elf32 and load_elf64 from segment i on:
\* copy the file bytes, zero the tail by slice indexing, track max_addr
RECURSIVE load_segments(_, _, _, _)
load_segments(segs, i, max_addr, memsize) ==
    IF i > Len(segs) THEN [ret |-> "Ok", max_addr |-> max_addr]
    ELSE LET p == segs[i] IN
         IF CopyFails(p.p_filesz, p.p_paddr, memsize)
         THEN [ret |-> "Err", max_addr |-> max_addr]
         ELSE IF p.p_filesz > p.p_memsz \/ p.p_memsz > memsize - p.p_paddr
         THEN [ret |-> "panic", max_addr |-> max_addr]
         ELSE load_segments(segs, i + 1,
                 IF p.p_paddr + p.p_memsz > max_addr
                 THEN p.p_paddr + p.p_memsz ELSE max_addr, memsize)

load_elf64(image, memsize) ==
    IF image.class # "ELF64"
    THEN [ret |-> "Err", err |-> "InvalidKernelImageFormat", max_addr |-> 0]
    ELSE LET r == load_segments(image.segs, 1, 0, memsize) IN
         [ret |-> r.ret,
          err |-> IF r.ret = "Err" THEN "OutOfGuestMemory" ELSE "none",
          max_addr |-> r.max_addr]

load_elf32(image, memsize) ==
    IF image.class # "ELF32"
    THEN [ret |-> "Err", err |-> "InvalidKernelImageFormat", max_addr |-> 0]
    ELSE LET r == load_segments(image.segs, 1, 0, memsize) IN
         [ret |-> r.ret,
          err |-> IF r.ret = "Err" THEN "OutOfGuestMemory" ELSE "none",
          max_addr |-> r.max_addr]

\* the length of the command line with its NUL, 0 when there is none
WithNul(cmdline) == IF cmdline = 0 THEN 0 ELSE cmdline + 1

\* setup_header: the fields the loader reads or writes
SetupHeader(setup_sects, header, version, loadflags, cmdline_size,
            initrd_addr_max) ==
    [setup_sects |-> setup_sects, header |-> header, version |-> version,
     loadflags |-> loadflags, code32_start |-> HIGH_MEMORY_START,
     cmdline_size |-> cmdline_size, initrd_addr_max |-> initrd_addr_max,
     type_of_loader |-> 0, heap_end_ptr |-> 0, cmd_line_ptr |-> 0,
     ramdisk_image |-> 0, ramdisk_size |-> 0]

default_setup_header ==
    [SetupHeader(0, SETUP_HEADER_MAGIC, 0, 0, CmdlineSize, 939524095)
        EXCEPT !.type_of_loader = 255, !.code32_start = 0]

\* a usize as carry * 2^64 + low
Usize(carry, low) == [carry |-> carry, low |-> low]

\* a - b on usize: with overflow checks a - b < 0 panics, without them it
\* wraps to a - b + 2^64
usize_sub(a, b, checks) ==
    IF a >= b THEN [ret |-> "Ok", value |-> Usize(0, a - b)]
    ELSE IF checks THEN [ret |-> "panic", value |-> Usize(0, 0)]
    ELSE [ret |-> "Ok", value |-> Usize(1, a - b)]

\* one copy_to_guest: len bytes of what, taken from offset from, put at addr
Copied(what, from, addr, len) ==
    [what |-> what, from |-> from, addr |-> addr, len |-> len]

\* what write_linux_boot_params returns, with the header it has filled in and
\* the copies it has made
Wlbp(ret, err, params_addr, hdr, writes, size, max_size) ==
    [ret |-> ret, err |-> err, params_addr |-> params_addr, hdr |-> hdr,
     writes |-> writes, size |-> size, max_size |-> max_size]
NoWlbp == Wlbp("none", "none", 0, default_setup_header, <<>>, 0, Usize(0, 0))

write_linux_boot_params(hdr0, exe_end, params, memsize, checks) ==
    LET hdr1 == [hdr0 EXCEPT !.type_of_loader = 255,
                   !.loadflags = IF (@ \div 128) % 2 = 1 THEN @ ELSE @ + 128,
                   !.heap_end_ptr = 65024]
        cmdline_len == WithNul(params.cmdline)
        initrd_len == IF params.initrd = <<>> THEN 0 ELSE params.initrd[1]
        \* the allocator's cursor is exe_end, then past the command line
        addr == next_multiple_of(exe_end + cmdline_len, 1048576)
        hdr2 == IF params.cmdline = 0 THEN hdr1
                ELSE [hdr1 EXCEPT !.cmd_line_ptr = exe_end]
        w1 == IF params.cmdline = 0 THEN <<>>
              ELSE <<Copied("cmdline", 0, exe_end, cmdline_len)>>
        hdr3 == IF params.initrd = <<>> THEN hdr2
                ELSE [hdr2 EXCEPT !.ramdisk_image = addr,
                                  !.ramdisk_size = initrd_len]
        w2 == IF params.initrd = <<>> THEN w1
              ELSE Append(w1, Copied("initrd", 0, addr, initrd_len))
        zero_page_addr == IF params.initrd = <<>> THEN exe_end + cmdline_len
                          ELSE addr + initrd_len
        max_size == usize_sub(hdr0.initrd_addr_max, addr, checks)
    IN  IF params.cmdline > hdr0.cmdline_size
        THEN Wlbp("Err", "CmdlineTooLong", 0, hdr1, <<>>, 0, Usize(0, 0))
        ELSE IF params.cmdline # 0 /\ CopyFails(cmdline_len, exe_end, memsize)
        THEN Wlbp("Err", "OutOfGuestMemory", 0, hdr1, <<>>, 0, Usize(0, 0))
        ELSE IF params.initrd # <<>> /\ addr > hdr0.initrd_addr_max
        THEN IF max_size.ret = "panic"
             THEN Wlbp("panic", "none", 0, hdr2, w1, 0, Usize(0, 0))
             ELSE Wlbp("Err", "InitrdTooLarge", 0, hdr2, w1, initrd_len,
                       max_size.value)
        ELSE IF params.initrd # <<>> /\ CopyFails(initrd_len, addr, memsize)
        THEN Wlbp("Err", "OutOfGuestMemory", 0, hdr2, w1, 0, Usize(0, 0))
        ELSE IF CopyFails(BootParamsSize, zero_page_addr, memsize)
        THEN Wlbp("Err", "OutOfGuestMemory", 0, hdr3, w2, 0, Usize(0, 0))
        ELSE Wlbp("Ok", "none", zero_page_addr, hdr3,
                  Append(w2, Copied("boot_params", 0, zero_page_addr,
                                        BootParamsSize)), 0, Usize(0, 0))

write_multiboot_info(exe_end, params, memsize) ==
    LET info_addr == next_multiple_of(exe_end, 4)
        mmap_addr == info_addr + MultibootInfoSize
        cmdline_addr == mmap_addr + MultibootMmapSize
    IN  IF params.cmdline # 0
           /\ CopyFails(WithNul(params.cmdline), cmdline_addr, memsize)
        THEN "OutOfGuestMemory"
        ELSE IF CopyFails(MultibootInfoSize, info_addr, memsize)
        THEN "OutOfGuestMemory"
        ELSE IF CopyFails(MultibootMmapSize, mmap_addr, memsize)
        THEN "OutOfGuestMemory"
        ELSE "Ok"

load_pvh(image, exe_end, params, memsize) ==
    IF image.note = "none" THEN LoadErr("InvalidKernelImageFormat")
    ELSE IF image.note = "short" THEN LoadErr("InvalidKernelImageFormat")
    ELSE LET params_addr == next_multiple_of(exe_end, 8)
             cmdline_addr == params_addr + StartInfoSize
             memmap_addr ==
                 next_multiple_of(cmdline_addr + WithNul(params.cmdline), 8)
         IN  IF params.cmdline # 0
                /\ CopyFails(WithNul(params.cmdline), cmdline_addr, memsize)
             THEN LoadErr("OutOfGuestMemory")
             ELSE IF CopyFails(2 * MemmapEntrySize, memmap_addr, memsize)
             THEN LoadErr("OutOfGuestMemory")
             ELSE IF CopyFails(StartInfoSize, params_addr, memsize)
             THEN LoadErr("OutOfGuestMemory")
             ELSE LoadOk("Pvh")

\* what a loader returns with the copies the Linux paths have made and the
\* return of write_linux_boot_params where it was called
Boot(result, entry_addr, params_addr, writes, wlbp) ==
    [result |-> result, entry_addr |-> entry_addr,
     params_addr |-> params_addr, writes |-> writes, wlbp |-> wlbp]
Fail(err) == Boot(LoadErr(err), 0, 0, <<>>, NoWlbp)

\* the tail of a Linux path: the Bootable or the error of
\* write_linux_boot_params
LinuxBoot(protocol, entry_addr, writes, w) ==
    IF w.ret = "panic" THEN Boot(LoadPanic, 0, 0, writes \o w.writes, w)
    ELSE IF w.ret = "Err"
    THEN Boot(LoadErr(w.err), 0, 0, writes \o w.writes, w)
    ELSE Boot(LoadOk(protocol), entry_addr, w.params_addr,
              writes \o w.writes, w)

load_bz_image(image, params, memsize, checks) ==
    LET hdr == image.hdr
        setup_sects == IF hdr.setup_sects = 0 THEN 4 ELSE hdr.setup_sects
        setup_size == (setup_sects + 1) * 512
        len == image.len - setup_size
        kernel == Copied("kernel", setup_size, HIGH_MEMORY_START, len)
    IN  IF image.len < BootParamsSize
        THEN Fail("InvalidKernelImageFormat")
        ELSE IF hdr.header # SETUP_HEADER_MAGIC \/ hdr.version < 518
                \/ hdr.loadflags % 2 = 0
        THEN Fail("InvalidKernelImageFormat")
        \* &kernel[setup_size..]
        ELSE IF setup_size > image.len
        THEN Boot(LoadPanic, 0, 0, <<>>, NoWlbp)
        ELSE IF CopyFails(len, HIGH_MEMORY_START, memsize)
        THEN Fail("OutOfGuestMemory")
        ELSE LinuxBoot("Linux32", hdr.code32_start, <<kernel>>,
                 write_linux_boot_params(hdr, HIGH_MEMORY_START + len,
                                         params, memsize, checks))

\* Bootable::load
Bootable_load(image, params, memsize, checks) ==
    LET e64 == load_elf64(image, memsize)
        e32 == load_elf32(image, memsize)
    IN  IF e64.ret = "panic" THEN Boot(LoadPanic, 0, 0, <<>>, NoWlbp)
        ELSE IF e64.ret = "Ok"
        THEN LET pvh == load_pvh(image, e64.max_addr, params, memsize) IN
             IF pvh.ret = "Ok"
             THEN Boot(pvh, image.note_entry,
                       next_multiple_of(e64.max_addr, 8), <<>>, NoWlbp)
             ELSE LinuxBoot("Linux64", image.e_entry, <<>>,
                      write_linux_boot_params(default_setup_header,
                          e64.max_addr, params, memsize, checks))
        ELSE IF e32.ret = "panic" THEN Boot(LoadPanic, 0, 0, <<>>, NoWlbp)
        ELSE IF e32.ret = "Ok"
        THEN IF image.magic
             THEN LET w == write_multiboot_info(e32.max_addr, params, memsize)
                  IN  IF w = "Ok"
                      THEN Boot(LoadOk("Multiboot"), image.e_entry,
                                next_multiple_of(e32.max_addr, 4), <<>>,
                                NoWlbp)
                      ELSE Fail(w)
             ELSE LinuxBoot("Linux32", image.e_entry, <<>>,
                      write_linux_boot_params(default_setup_header,
                          e32.max_addr, params, memsize, checks))
        ELSE LET bz == load_bz_image(image, params, memsize, checks) IN
             IF bz.result.ret = "Err"
             THEN [bz EXCEPT !.result = LoadErr("InvalidKernelImageFormat")]
             ELSE bz

Segment(paddr, filesz, memsz) ==
    [p_paddr |-> paddr, p_filesz |-> filesz, p_memsz |-> memsz]
\* a segment that fits, one whose zero-filled tail alone reaches past the
\* end, one whose file bytes reach past the end, one that ends exactly at
\* the end of memory, and one with p_memsz < p_filesz
Segments ==
    {Segment(HIGH_MEMORY_START, 4096, 8192),
     Segment(HIGH_MEMORY_START, 4096, LoadMemSize),
     Segment(LoadMemSize - 4096, 8192, 8192),
     Segment(LoadMemSize - 4096, 2048, 4096),
     Segment(HIGH_MEMORY_START, 4096, 2048)}
SegmentLists == UNION {[1 .. n -> Segments] : n \in 0 .. MaxSegs}
Cmdlines == {0, 10, 300}

\* the file of an image: its length and the setup header at 0x1f1
BzFile(len, hdr) == [len |-> len, hdr |-> hdr]
\* no setup header, a bzImage of 4096 bytes after five setup sectors, and one
\* as large as guest memory
BzFiles ==
    {BzFile(BootParamsSize, SetupHeader(0, 0, 0, 0, 0, 0)),
     BzFile(2560 + 4096,
            SetupHeader(4, SETUP_HEADER_MAGIC, 525, 1, 2047, 939524095)),
     BzFile(2560 + LoadMemSize,
            SetupHeader(4, SETUP_HEADER_MAGIC, 525, 1, 2047, 939524095))}

Image(class, segs, note, magic, file) ==
    [class |-> class, segs |-> segs, note |-> note, magic |-> magic,
     e_entry |-> HIGH_MEMORY_START, note_entry |-> HIGH_MEMORY_START + 512,
     len |-> file.len, hdr |-> file.hdr]

\* the Xen note is looked for in a valid ELF64 image only; an image with no
\* valid ELF header has no segments to load
Images ==
    {Image("ELF64", segs, note, magic, file) :
        segs \in SegmentLists, note \in {"none", "entry", "short"},
        magic \in BOOLEAN, file \in BzFiles}
    \cup
    {Image("ELF32", segs, "none", magic, file) :
        segs \in SegmentLists, magic \in BOOLEAN, file \in BzFiles}
    \cup
    {Image("none", <<>>, "none", magic, file) :
        magic \in BOOLEAN, file \in BzFiles}

KernelParams(cmdline, initrd) == [cmdline |-> cmdline, initrd |-> initrd]
Build(image, params, memsize) ==
    [op |-> "build", image |-> image, params |-> params, memsize |-> memsize,
     boot |-> Fail("none")]

LoadInit ==
    \E image \in Images, cmdline \in Cmdlines :
        loaded = Build(image, KernelParams(cmdline, <<>>), LoadMemSize)

\* GuestBuilder::build calls Bootable::load on the kernel it was given
BootLoad ==
    /\ loaded.op = "build"
    /\ loaded' = [loaded EXCEPT !.op = "loaded",
                    !.boot = Bootable_load(loaded.image, loaded.params,
                                           loaded.memsize, overflow_checks)]
    /\ UNCHANGED <<acpi, layout, uartVars, busVars, procVars, memVars, cpuVars>>

(***************************************************************************)
(* bzImage files and Linux boot parameters in detail: setup headers that   *)
(* pass and fail each check, files shorter than their setup sectors,       *)
(* initrds below and above initrd_addr_max, on both build profiles.  The   *)
(* initrd file is readable; its length is all the loader uses of it.       *)
(***************************************************************************)
BzMemSize == 4194304            \* memory.len(): 4 MiB
BigMemSize == 1073741824        \* memory.len(): 1 GiB
SetupSects == {0, 4, 15}
HeaderMagics == {SETUP_HEADER_MAGIC, 0}
Versions == {517, 518, 525}
Loadflags == {0, 1}
InitrdAddrMaxes == {HIGH_MEMORY_START, 939524095}
FileLens == {2048, BootParamsSize, 2560 + 4096, 8192 + 8192}
Initrds == {<<>>, <<0>>, <<4096>>}
BzCmdlines == {0, 10, 3000}

BzImages ==
    {Image("none", <<>>, "none", FALSE,
           BzFile(len, SetupHeader(s, h, v, f, 2047, m))) :
        len \in FileLens, s \in SetupSects, h \in HeaderMagics,
        v \in Versions, f \in Loadflags, m \in InitrdAddrMaxes}
\* vmlinux images ending below and above the default initrd_addr_max
Vmlinuxes ==
    {Image(class, <<Segment(paddr, 4096, 8192)>>, "none", FALSE,
           BzFile(BootParamsSize, SetupHeader(0, 0, 0, 0, 0, 0))) :
        class \in {"ELF64", "ELF32"}, paddr \in {HIGH_MEMORY_START, 939524096}}

\* the bus while the loader runs: COM1 alone, on either build profile
BuildIdle ==
    /\ overflow_checks \in BOOLEAN
    /\ devices = <<[base |-> base_port, len |-> 8]>>
    /\ panicked = FALSE
    /\ busLast = [op |-> "new", port |-> 0, range |-> PortRangeFrom(0, 0),
                  ret |-> "Ok", hres |-> "Ok", called |-> <<>>, bufIn |-> NoData,
                  bufOut |-> NoData]

BzImageInit ==
    \/ \E image \in BzImages, cmdline \in BzCmdlines, initrd \in Initrds,
          memsize \in {LoadMemSize, BzMemSize} :
          loaded = Build(image, KernelParams(cmdline, initrd), memsize)
    \/ \E image \in Vmlinuxes, cmdline \in BzCmdlines, initrd \in Initrds :
          loaded = Build(image, KernelParams(cmdline, initrd), BigMemSize)
(***************************************************************************)
(* The ACPI tables (boot.rs, configure_acpi), byte by byte.  The layout of *)
(* the table structures is that of ACPICA's actbl.h, packed.               *)
(***************************************************************************)
MaxAcpiCpus == 64               \* num_cpus
RSDP_ADDR == 917504             \* 0xe_0000
\* 0xfec0_0000 and 0xfee0_0000 as the bytes copy_to_guest writes for them
IOAPIC_ADDR == <<0, 0, 192, 254>>
APIC_BASE == <<0, 0, 224, 254>>
ACPI_SIG_RSDP == <<82, 83, 68, 32, 80, 84, 82, 32>>     \* "RSD PTR "
ACPI_SIG_XSDT == <<88, 83, 68, 84>>                     \* "XSDT"
ACPI_SIG_MADT == <<65, 80, 73, 67>>                     \* "APIC"
ACPI_RSDP_CHECKSUM_LENGTH == 20
ACPI_MADT_TYPE_LOCAL_APIC == 0
ACPI_MADT_TYPE_IO_APIC == 1
ACPI_MADT_ENABLED == 1
SizeofRsdp == 36                \* size_of::<acpi_table_rsdp>()
SizeofTableHeader == 36         \* size_of::<acpi_table_header>()
SizeofTableMadt == 44           \* size_of::<acpi_table_madt>()
SizeofMadtIoApic == 12          \* size_of::<acpi_madt_io_apic>()
SizeofMadtLocalApic == 8        \* size_of::<acpi_madt_local_apic>()

\* the n little-endian bytes of v
RECURSIVE LE(_, _)
LE(v, n) == IF n = 0 THEN <<>> ELSE <<v % 256>> \o LE(v \div 256, n - 1)

Zeros(n) == [i \in 1 .. n |-> 0]

\* `sum = sum.wrapping_add(b)` over bytes[lo .. hi]; addition modulo 256 is
\* associative, and the bytes are summed by halves
RECURSIVE SumBytes(_, _, _)
SumBytes(bytes, lo, hi) ==
    IF lo > hi THEN 0
    ELSE IF lo = hi THEN bytes[lo] % 256
    ELSE LET mid == (lo + hi) \div 2 IN
         (SumBytes(bytes, lo, mid) + SumBytes(bytes, mid + 1, hi)) % 256

\* the checksum! macro: (u8::MAX - sum).wrapping_add(1)
checksum(bytes) == ((255 - SumBytes(bytes, 1, Len(bytes))) + 1) % 256

\* acpi_table_rsdp with both checksum fields as given
acpi_table_rsdp(cks, xsdt_addr, ext) ==
    ACPI_SIG_RSDP \o <<cks>> \o Zeros(6) \o <<2>> \o LE(0, 4)
    \o LE(SizeofRsdp, 4) \o LE(xsdt_addr, 8) \o <<ext>> \o Zeros(3)

\* acpi_table_header: signature, length, revision, checksum, the rest zero
acpi_table_header(sig, length, revision, cks) ==
    sig \o LE(length, 4) \o <<revision, cks>> \o Zeros(26)

acpi_madt_io_apic ==
    <<ACPI_MADT_TYPE_IO_APIC, SizeofMadtIoApic, 0, 0>> \o IOAPIC_ADDR
    \o LE(0, 4)

acpi_madt_local_apic(id) ==
    <<ACPI_MADT_TYPE_LOCAL_APIC, SizeofMadtLocalApic, id % 256, id % 256>>
    \o LE(ACPI_MADT_ENABLED, 4)

\* the Vec of local APIC entries for ids 0 .. num_cpus - 1, as bytes
madt_local_apics(num_cpus) ==
    [i \in 1 .. num_cpus * SizeofMadtLocalApic |->
        acpi_madt_local_apic((i - 1) \div SizeofMadtLocalApic)
            [((i - 1) % SizeofMadtLocalApic) + 1]]

\* the copies of configure_acpi in order, each as [addr, bytes]
AcpiCopies(num_cpus) ==
    LET xsdp_addr == next_multiple_of(RSDP_ADDR, 16)
        xsdt_size == SizeofTableHeader + 8
        xsdt_addr == xsdp_addr + SizeofRsdp
        madt_size == SizeofTableMadt + SizeofMadtIoApic
                     + num_cpus * SizeofMadtLocalApic
        madt_addr == xsdt_addr + xsdt_size
        xsdp_cks == checksum(SubSeq(acpi_table_rsdp(0, xsdt_addr, 0), 1,
                                    ACPI_RSDP_CHECKSUM_LENGTH))
        xsdp_ext == checksum(acpi_table_rsdp(xsdp_cks, xsdt_addr, 0))
        xsdt_cks == checksum(acpi_table_header(ACPI_SIG_XSDT, xsdt_size, 1, 0)
                             \o LE(madt_addr, 8))
        lapics == madt_local_apics(num_cpus)
        madt_cks == checksum(acpi_table_header(ACPI_SIG_MADT, madt_size, 6, 0)
                             \o acpi_madt_io_apic \o lapics)
    IN  << [addr |-> xsdp_addr,
            bytes |-> acpi_table_rsdp(xsdp_cks, xsdt_addr, xsdp_ext)],
           [addr |-> xsdt_addr,
            bytes |-> acpi_table_header(ACPI_SIG_XSDT, xsdt_size, 1, xsdt_cks)],
           [addr |-> xsdt_addr + SizeofTableHeader,
            bytes |-> LE(madt_addr, 8)],
           [addr |-> madt_addr,
            bytes |-> acpi_table_header(ACPI_SIG_MADT, madt_size, 6, madt_cks)
                      \o APIC_BASE \o LE(0, 4)],
           [addr |-> madt_addr + SizeofTableMadt,
            bytes |-> acpi_madt_io_apic],
           [addr |-> madt_addr + SizeofTableMadt + SizeofMadtIoApic,
            bytes |-> lapics] >>

\* how many of the copies succeed before the first `?` returns
RECURSIVE CopiesDone(_, _, _)
CopiesDone(copies, i, memsize) ==
    IF i > Len(copies) THEN Len(copies)
    ELSE IF CopyFails(Len(copies[i].bytes), copies[i].addr, memsize)
    THEN i - 1
    ELSE CopiesDone(copies, i + 1, memsize)

\* configure_acpi: the copies made, and what it returns
configure_acpi(memsize, num_cpus) ==
    LET copies == AcpiCopies(num_cpus)
        done == CopiesDone(copies, 1, memsize)
    IN  [ret |-> IF done = Len(copies) THEN "Ok" ELSE "OutOfGuestMemory",
         written |-> SubSeq(copies, 1, done)]

AcpiMemSizes == {RSDP_ADDR + 130, HIGH_MEMORY_START}

AcpiInit ==
    \E num_cpus \in 1 .. MaxAcpiCpus, memsize \in AcpiMemSizes :
        acpi = [op |-> "build", num_cpus |-> num_cpus, memsize |-> memsize,
                ret |-> "none", written |-> <<>>]

\* GuestBuilder::build calls configure_acpi
BootConfigureAcpi ==
    /\ acpi.op = "build"
    /\ LET r == configure_acpi(acpi.memsize, acpi.num_cpus) IN
          acpi' = [acpi EXCEPT !.op = "configured", !.ret = r.ret,
                               !.written = r.written]
    /\ UNCHANGED <<loaded, layout, uartVars, busVars, procVars, memVars, cpuVars>>

(***************************************************************************)
(* The boot layout (boot.rs, Bootable::configure_memory): the byte ranges  *)
(* written below the kernel, as half-open intervals [lo, hi).              *)
(***************************************************************************)
MaxMemUnits == 130              \* memory sizes up to this many MemUnit
MemUnit == 8388608              \* 8 MiB
GDT_BASE == 1280                \* 0x500
IDT_BASE == 1328                \* 0x530
PAGE_TABLE_ADDR == 32768        \* 0x8000
BootProtocols == {"Linux32", "Linux64", "Pvh", "Multiboot"}

\* BootProtocol::is_32bit
is_32bit(protocol) == protocol \in {"Linux32", "Pvh", "Multiboot"}

div_ceil(a, b) == (a + b - 1) \div b

\* `count` copies of `width` bytes each from `base` upwards, stopped by the
\* first that fails: the range written, and whether all were made
CopyRun(base, width, count, memsize) ==
    LET room == IF memsize < base THEN 0 ELSE (memsize - base) \div width
        made == IF room < count THEN room ELSE count
    IN  [lo |-> base, hi |-> base + made * width, ok |-> made = count]

\* one after another, until one is cut short: the ranges written and, in
\* the order of the writes, what was written where
RECURSIVE RunAll(_, _, _)
RunAll(runs, i, memsize) ==
    IF i > Len(runs) THEN [ret |-> "Ok", ranges |-> {}, written |-> <<>>]
    ELSE LET r == CopyRun(runs[i].base, runs[i].width, runs[i].count, memsize)
             rest == RunAll(runs, i + 1, memsize)
             this == IF r.hi > r.lo THEN {[lo |-> r.lo, hi |-> r.hi]} ELSE {}
             what == IF r.hi > r.lo
                     THEN <<[kind |-> runs[i].kind, lo |-> r.lo, hi |-> r.hi,
                             width |-> runs[i].width]>>
                     ELSE <<>>
         IN  IF r.ok THEN [ret |-> rest.ret, ranges |-> this \cup rest.ranges,
                           written |-> what \o rest.written]
             ELSE [ret |-> "OutOfGuestMemory", ranges |-> this,
                   written |-> what]

Run(kind, base, width, count) ==
    [kind |-> kind, base |-> base, width |-> width, count |-> count]

\* Bootable::configure_memory
configure_memory(protocol, memsize) ==
    IF is_32bit(protocol)
    THEN LET n == div_ceil(memsize, 4194304)
             pde_addr == PAGE_TABLE_ADDR
             pte_addr == pde_addr + 4096
         IN  RunAll(<<Run("GDT32", GDT_BASE, 40, 1),
                      Run("IDT32", IDT_BASE, 8, 1),
                      Run("pde32", pde_addr, 4, n),
                      Run("pte32", pte_addr, 4, 1024 * n)>>,
                    1, memsize)
    ELSE LET pml4_addr == PAGE_TABLE_ADDR
             pdpte_addr == pml4_addr + 4096
             pde_addr == pdpte_addr + 4096
         IN  RunAll(<<Run("GDT64", GDT_BASE, 48, 1),
                      Run("IDT64", IDT_BASE, 16, 1),
                      Run("pml4e", pml4_addr, 8, 1),
                      Run("pdpte", pdpte_addr, 8, 4),
                      Run("pde64", pde_addr, 8, 4 * 512)>>, 1, memsize)

\* A paging entry is the number of the 4 KiB frame it names and its low
\* twelve bits; a u32 entry has twenty bits of frame number, higher ones
\* are shifted out or wrap.
Pte32(frame, flags) == [frame |-> frame % 1048576, flags |-> flags]
Pte64(frame, flags) == [frame |-> frame, flags |-> flags]
NoEntry == [frame |-> 0, flags |-> 0]

EntryValue_FlatPde(kind, i) ==
    IF kind = "pde32" THEN Pte32((PAGE_TABLE_ADDR + 4096) \div 4096, 3)
    ELSE IF kind = "pte32" THEN Pte32(i, 3)
    ELSE IF kind = "pml4e" THEN Pte64((PAGE_TABLE_ADDR + 4096) \div 4096, 3)
    ELSE IF kind = "pdpte" THEN Pte64((PAGE_TABLE_ADDR + 8192) \div 4096, 3)
    ELSE IF kind = "pde64" THEN Pte64(i * 512, 131)
    ELSE NoEntry
\* the value configure_memory writes as the i-th of a run: for "pde32"
\* (pte_addr + (pde << 12)) | 0x3, for "pte32" (pte << 12) | 0x3, for
\* "pml4e" pdpte_addr | 0x3, for "pdpte" (pde_addr + (pdpte << 12)) | 0x3,
\* for "pde64" (pde << 21) | 0x83
EntryValue(kind, i) ==
    IF kind = "pde32" THEN Pte32((PAGE_TABLE_ADDR + 4096) \div 4096 + i, 3)
    ELSE IF kind = "pte32" THEN Pte32(i, 3)
    ELSE IF kind = "pml4e" THEN Pte64((PAGE_TABLE_ADDR + 4096) \div 4096, 3)
    ELSE IF kind = "pdpte"
    THEN Pte64((PAGE_TABLE_ADDR + 8192) \div 4096 + i, 3)
    ELSE IF kind = "pde64" THEN Pte64(i * 512, 131)
    ELSE NoEntry

LayoutMemSizes ==
    {k * MemUnit : k \in 1 .. MaxMemUnits}
    \cup {PAGE_TABLE_ADDR + 6144, 5242880}

LayoutInit ==
    \E protocol \in BootProtocols, memsize \in LayoutMemSizes :
        layout = [op |-> "build", protocol |-> protocol, memsize |-> memsize,
                  ret |-> "none", ranges |-> {}, written |-> <<>>]

\* GuestBuilder::build calls configure_memory on the loaded Bootable
BootConfigureMemory ==
    /\ layout.op = "build"
    /\ LET r == configure_memory(layout.protocol, layout.memsize) IN
          layout' = [layout EXCEPT !.op = "configured", !.ret = r.ret,
                                   !.ranges = r.ranges,
                                   !.written = r.written]
    /\ UNCHANGED <<loaded, acpi, uartVars, busVars, procVars, memVars, cpuVars>>

(***************************************************************************)
(* The VCPU run loop (guest.rs) and the input loop (main.rs) as threads    *)
(* that take locks.  The hub is an Arc<Mutex<PortIoHub>>; every device in  *)
(* it is an Arc<Mutex<dyn PortIoDevice>>, in the order main adds them.     *)
(* What the guest does, what a handler returns and what the terminal       *)
(* delivers are inputs.                                                    *)
(***************************************************************************)
MaxChunk == 2                   \* bytes returned by one stdin.read()
Main == 0                       \* the main thread
NoThread == 0 - 1
CpuThreads == 1 .. NumCpus
DeviceOrder == <<"i8042", "rtc", "serial">>
HubLock == "port_io_hub"
Locks == {HubLock} \cup {DeviceOrder[i] : i \in 1 .. Len(DeviceOrder)}

RunResults == {"Ok", "EAGAIN", "EINTR", "EFAULT"}
\* KVM_EXIT_MMIO stands for every exit reason of the last match arm
ExitReasons == {"KVM_EXIT_IO", "KVM_EXIT_HLT", "KVM_EXIT_SHUTDOWN",
                "KVM_EXIT_INTERNAL_ERROR", "KVM_EXIT_MMIO"}
\* io.direction as KVM sets it
Directions == {"KVM_EXIT_IO_IN", "KVM_EXIT_IO_OUT"}
\* the device whose port range contains io.port, 0 when none does
Targets == 0 .. Len(DeviceOrder)

NewCpu ==
    [pc |-> "run", run_res |-> "none", exit_reason |-> "none",
     direction |-> "none", target |-> 0, i |-> 0, dispatched |-> 0,
     op |-> "none", hres |-> "none", ret |-> "none"]
NewReader == [pc |-> "read", left |-> 0, ret |-> "none"]

\* Mutex::lock by thread t, when the mutex is free, and the drop of its guard
Locked(m, l, t) == [m EXCEPT ![l] = t]
Unlocked_Keeps(m, l) == m
Unlocked(m, l) == [m EXCEPT ![l] = NoThread]

\* the match on vcpu.run(): where the loop goes and what Cpu::run returns
AfterRun(res) ==
    IF res = "Ok" THEN [pc |-> "exit", ret |-> "none"]
    ELSE IF res \in {"EAGAIN", "EINTR"} THEN [pc |-> "run", ret |-> "none"]
    ELSE [pc |-> "done", ret |-> "Err(run)"]

AfterExit_HaltContinues(reason) ==
    IF reason = "KVM_EXIT_IO" THEN [pc |-> "lock_hub", ret |-> "none"]
    ELSE IF reason = "KVM_EXIT_INTERNAL_ERROR"
    THEN [pc |-> "done", ret |-> "Ok"]
    ELSE [pc |-> "run", ret |-> "none"]
\* the match on exit_reason
AfterExit(reason) ==
    IF reason = "KVM_EXIT_IO" THEN [pc |-> "lock_hub", ret |-> "none"]
    ELSE IF reason \in {"KVM_EXIT_HLT", "KVM_EXIT_SHUTDOWN"}
    THEN [pc |-> "done", ret |-> "Ok"]
    ELSE IF reason = "KVM_EXIT_INTERNAL_ERROR"
    THEN [pc |-> "done", ret |-> "Ok"]
    ELSE [pc |-> "run", ret |-> "none"]

\* the match on io.direction: the call made on the hub
HubCall(direction) ==
    IF direction = "KVM_EXIT_IO_IN" THEN "read" ELSE "write"

\* what the threads leave alone
CpuFrame ==
    UNCHANGED <<entry, uartVars, busVars, procVars, memVars, bootVars>>

CpuInit ==
    /\ vcpu = [t \in CpuThreads |-> NewCpu]
    /\ reader = NewReader
    /\ mutex = [l \in Locks |-> NoThread]
    /\ exited = FALSE

\* unsafe { vcpu.run() } and the match on its result
CpuRun(t) ==
    /\ ~ exited /\ vcpu[t].pc = "run"
    /\ \E res \in RunResults, reason \in ExitReasons :
       \E direction \in IF res = "Ok" /\ reason = "KVM_EXIT_IO"
                       THEN Directions ELSE {"none"},
          target \in IF res = "Ok" /\ reason = "KVM_EXIT_IO"
                    THEN Targets ELSE {0} :
          vcpu' = [vcpu EXCEPT ![t] =
                     [NewCpu EXCEPT !.pc = AfterRun(res).pc,
                                    !.ret = AfterRun(res).ret,
                                    !.run_res = res,
                                    !.exit_reason =
                                        IF res = "Ok" THEN reason ELSE "none",
                                    !.direction = direction,
                                    !.target = target]]
    /\ UNCHANGED <<reader, mutex, exited>>
    /\ CpuFrame

\* the match on run.exit_reason, up to the lock of the hub
CpuExit(t) ==
    /\ ~ exited /\ vcpu[t].pc = "exit"
    /\ vcpu' = [vcpu EXCEPT ![t].pc = AfterExit(vcpu[t].exit_reason).pc,
                            ![t].ret = AfterExit(vcpu[t].exit_reason).ret]
    /\ UNCHANGED <<reader, mutex, exited>>
    /\ CpuFrame

\* self.port_io_hub.lock().unwrap(), then port_io_hub.read or .write
CpuLockHub(t) ==
    /\ ~ exited /\ vcpu[t].pc = "lock_hub"
    /\ mutex[HubLock] = NoThread
    /\ mutex' = Locked(mutex, HubLock, t)
    /\ vcpu' = [vcpu EXCEPT ![t].pc = "range_lock", ![t].i = 1,
                            ![t].op = HubCall(vcpu[t].direction),
                            ![t].dispatched = @ + 1]
    /\ UNCHANGED <<reader, exited>>
    /\ CpuFrame

\* PortIoHub::read and write, the loop over the devices: device.port_range()
\* locks device i
CpuRangeLock(t) ==
    /\ ~ exited /\ vcpu[t].pc = "range_lock"
    /\ IF vcpu[t].i > Len(DeviceOrder)
       THEN \* no device contains the port: Ok(())
            /\ vcpu' = [vcpu EXCEPT ![t].pc = "unlock_hub", ![t].hres = "Ok"]
            /\ UNCHANGED mutex
       ELSE /\ mutex[DeviceOrder[vcpu[t].i]] = NoThread
            /\ mutex' = Locked(mutex, DeviceOrder[vcpu[t].i], t)
            /\ vcpu' = [vcpu EXCEPT ![t].pc = "range"]
    /\ UNCHANGED <<reader, exited>>
    /\ CpuFrame

\* device.port_range() returns and drops its guard; .contains(port)
CpuRange(t) ==
    /\ ~ exited /\ vcpu[t].pc = "range"
    /\ mutex' = Unlocked(mutex, DeviceOrder[vcpu[t].i])
    /\ vcpu' = [vcpu EXCEPT
                  ![t].pc = IF vcpu[t].i = vcpu[t].target THEN "device_lock"
                            ELSE "range_lock",
                  ![t].i = IF vcpu[t].i = vcpu[t].target THEN @ ELSE @ + 1]
    /\ UNCHANGED <<reader, exited>>
    /\ CpuFrame

\* device.read or device.write of Arc<Mutex<T>>: self.lock().unwrap()
CpuDeviceLock(t) ==
    /\ ~ exited /\ vcpu[t].pc = "device_lock"
    /\ mutex[DeviceOrder[vcpu[t].i]] = NoThread
    /\ mutex' = Locked(mutex, DeviceOrder[vcpu[t].i], t)
    /\ vcpu' = [vcpu EXCEPT ![t].pc = "handler"]
    /\ UNCHANGED <<reader, exited>>
    /\ CpuFrame

\* the handler of the device runs and the device guard is dropped; the write
\* handler of the I8042 may end the process
CpuHandler(t) ==
    /\ ~ exited /\ vcpu[t].pc = "handler"
    /\ \E end \in IF DeviceOrder[vcpu[t].i] = "i8042" /\ vcpu[t].op = "write"
                  THEN {"Ok", "exit"} ELSE {"Ok", "Err"} :
          IF end = "exit"
          THEN exited' = TRUE /\ UNCHANGED <<vcpu, mutex>>
          ELSE /\ mutex' = Unlocked(mutex, DeviceOrder[vcpu[t].i])
               /\ vcpu' = [vcpu EXCEPT ![t].pc = "unlock_hub",
                                       ![t].hres = end]
               /\ UNCHANGED exited
    /\ UNCHANGED reader
    /\ CpuFrame

\* the `?` on the call of the hub and the end of the match arm: the guard of
\* the hub is dropped on both ways out
CpuUnlockHub(t) ==
    /\ ~ exited /\ vcpu[t].pc = "unlock_hub"
    /\ mutex' = Unlocked(mutex, HubLock)
    /\ vcpu' = [vcpu EXCEPT
                  ![t].pc = IF vcpu[t].hres = "Err" THEN "done" ELSE "run",
                  ![t].ret = IF vcpu[t].hres = "Err" THEN "Err(device)"
                             ELSE "none",
                  ![t].i = 0, ![t].target = 0]
    /\ UNCHANGED <<reader, exited>>
    /\ CpuFrame

\* stdin.read(&mut buf): n bytes, or an end of the loop, with which main
\* returns and the process ends
ReaderRead ==
    /\ ~ exited /\ reader.pc = "read"
    /\ \/ /\ \E n \in 1 .. MaxChunk :
                reader' = [reader EXCEPT !.pc = "lock", !.left = n]
          /\ UNCHANGED exited
       \/ /\ reader' = [reader EXCEPT !.pc = "done", !.ret = "Ok"]
          /\ exited' = TRUE
    /\ UNCHANGED <<vcpu, mutex>>
    /\ CpuFrame

\* serial.lock().unwrap()
ReaderLock ==
    /\ ~ exited /\ reader.pc = "lock"
    /\ mutex["serial"] = NoThread
    /\ mutex' = Locked(mutex, "serial", Main)
    /\ reader' = [reader EXCEPT !.pc = "queue"]
    /\ UNCHANGED <<vcpu, exited>>
    /\ CpuFrame

\* one byte of the chunk: swallowed or queued with Ok, queue_rx failing, or
\* Ctrl-A x; the last two end main and with it the process
ReaderByte ==
    /\ ~ exited /\ reader.pc = "queue" /\ reader.left > 0
    /\ \/ /\ reader' = [reader EXCEPT !.left = @ - 1]
          /\ UNCHANGED <<mutex, exited>>
       \/ /\ \E ret \in {"Err", "Ok"} :
                reader' = [reader EXCEPT !.pc = "done", !.ret = ret]
          /\ mutex' = Unlocked(mutex, "serial")
          /\ exited' = TRUE
    /\ UNCHANGED vcpu
    /\ CpuFrame

\* the end of the Ok(n) arm drops the guard of the UART
ReaderUnlock ==
    /\ ~ exited /\ reader.pc = "queue" /\ reader.left = 0
    /\ mutex' = Unlocked(mutex, "serial")
    /\ reader' = [reader EXCEPT !.pc = "read"]
    /\ UNCHANGED <<vcpu, exited>>
    /\ CpuFrame
(***************************************************************************)
(* The registers of a VCPU at entry (boot.rs, load.rs, guest.rs).  A       *)
(* control register is the set of the numbers of its set bits, so that bit *)
(* 31 and above are within reach; a general register is a number.          *)
(***************************************************************************)
STACK_POINTER == 524288                     \* 0x0008_0000
MULTIBOOT_BOOTLOADER_MAGIC == 732803074     \* 0x2BADB002
CR0_PE == {0}                               \* 0x1
CR0_PG == {31}                              \* 0x8000_0000
CR4_PAE == {5}                              \* 0x20
EFER_LME_LMA == {8, 10}                     \* 0x500

\* kvm_regs::default()
kvm_regs_default ==
    [rax |-> 0, rbx |-> 0, rcx |-> 0, rdx |-> 0, rsi |-> 0, rdi |-> 0,
     rsp |-> 0, rbp |-> 0, r8 |-> 0, r9 |-> 0, r10 |-> 0, r11 |-> 0,
     r12 |-> 0, r13 |-> 0, r14 |-> 0, r15 |-> 0, rip |-> 0, rflags |-> 0]

BootProtocol_configure_regs_NoMagic(protocol, regs, params_addr) ==
    IF protocol \in {"Linux32", "Linux64"}
    THEN [regs EXCEPT !.rsi = params_addr]
    ELSE [regs EXCEPT !.rbx = params_addr]
\* BootProtocol::configure_regs
BootProtocol_configure_regs(protocol, regs, params_addr) ==
    IF protocol = "Linux32"
    THEN [regs EXCEPT !.rsi = params_addr, !.rbp = 0, !.rdi = 0, !.rbx = 0]
    ELSE IF protocol = "Linux64"
    THEN [regs EXCEPT !.rsi = params_addr]
    ELSE IF protocol = "Pvh"
    THEN [regs EXCEPT !.rbx = params_addr,
             !.rflags = ClearBit(ClearBit(ClearBit(@, 256), 512), 131072)]
    ELSE [regs EXCEPT !.rax = MULTIBOOT_BOOTLOADER_MAGIC,
             !.rbx = params_addr,
             !.rflags = ClearBit(ClearBit(@, 512), 131072)]

\* Bootable::configure_regs
Bootable_configure_regs(bootable, regs) ==
    BootProtocol_configure_regs(bootable.protocol,
        [regs EXCEPT !.rflags = 2, !.rip = bootable.entry_addr,
                     !.rsp = STACK_POINTER],
        bootable.params_addr)

BootProtocol_configure_sregs_Keeps(protocol, sregs) == sregs
\* BootProtocol::configure_sregs
BootProtocol_configure_sregs(protocol, sregs) ==
    IF protocol = "Pvh" THEN [sregs EXCEPT !.cr0 = {0}, !.cr4 = {}]
    ELSE sregs

\* Bootable::configure_sregs: the control registers, the table bases and the
\* code segment
Bootable_configure_sregs(bootable, sregs) ==
    LET based == [sregs EXCEPT !.gdt_base = GDT_BASE, !.idt_base = IDT_BASE,
                               !.cr3 = PAGE_TABLE_ADDR]
    IN  BootProtocol_configure_sregs(bootable.protocol,
            IF is_32bit(bootable.protocol)
            THEN [based EXCEPT !.cs = "CODE_SEGMENT32",
                               !.cr0 = (@ \cup CR0_PE) \ CR0_PG,
                               !.cr4 = @ \ CR4_PAE,
                               !.efer = @ \ EFER_LME_LMA]
            ELSE [based EXCEPT !.cs = "CODE_SEGMENT64",
                               !.cr0 = @ \cup CR0_PE \cup CR0_PG,
                               !.cr4 = @ \cup CR4_PAE,
                               !.efer = @ \cup EFER_LME_LMA])

\* what vcpu.sregs() fetches: any setting of PE, ET, CD and PG in CR0, of PAE
\* and PGE in CR4, of LME, LMA and NXE in EFER
FetchedSregs ==
    {[cr0 |-> cr0, cr3 |-> 0, cr4 |-> cr4, efer |-> efer, cs |-> "reset",
      gdt_base |-> 0, idt_base |-> 0] :
        cr0 \in SUBSET {0, 4, 30, 31}, cr4 \in SUBSET {5, 7},
        efer \in SUBSET {8, 10, 11}}
EntryAddrs == {0, HIGH_MEMORY_START, 16777216}
ParamsAddrs == {0, HIGH_MEMORY_START + 8192}
Bootables ==
    {[protocol |-> protocol, entry_addr |-> entry_addr,
      params_addr |-> params_addr] :
        protocol \in BootProtocols, entry_addr \in EntryAddrs,
        params_addr \in ParamsAddrs}

EntryInit ==
    \E bootable \in Bootables, sregs \in FetchedSregs :
        entry = [op |-> "new", bootable |-> bootable, fetched |-> sregs,
                 sregs |-> sregs, regs |-> kvm_regs_default]

\* Cpu::run before its loop: the fetched sregs and fresh regs are configured
\* and set
CpuSetup ==
    /\ entry.op = "new"
    /\ entry' = [entry EXCEPT !.op = "set",
                   !.sregs = Bootable_configure_sregs(entry.bootable, @),
                   !.regs = Bootable_configure_regs(entry.bootable, @)]
    /\ UNCHANGED <<vcpu, reader, mutex, exited>>
    /\ UNCHANGED <<uartVars, busVars, procVars, memVars, bootVars>>
\* a build of the default guest that has not started
LoadIdle ==
    loaded = [Build(Image("none", <<>>, "none", FALSE,
                          BzFile(0, SetupHeader(0, 0, 0, 0, 0, 0))),
                    KernelParams(0, <<>>), 67108864) EXCEPT !.op = "none"]
AcpiIdle ==
    acpi = [op |-> "none", num_cpus |-> 1, memsize |-> 67108864,
            ret |-> "none", written |-> <<>>]
LayoutIdle ==
    layout = [op |-> "none", protocol |-> "Linux64", memsize |-> 67108864,
              ret |-> "none", ranges |-> {}, written |-> <<>>]
BootIdle == LoadIdle /\ AcpiIdle /\ LayoutIdle

\* threads that have not started, all locks free
CpuIdle == CpuInit
\* no VCPU set up
EntryIdle ==
    entry = [op |-> "none",
             bootable |-> [protocol |-> "Linux64", entry_addr |-> 0,
                           params_addr |-> 0],
             fetched |-> [cr0 |-> {}, cr3 |-> 0, cr4 |-> {}, efer |-> {},
                          cs |-> "reset", gdt_base |-> 0, idt_base |-> 0],
             sregs |-> [cr0 |-> {}, cr3 |-> 0, cr4 |-> {}, efer |-> {},
                        cs |-> "reset", gdt_base |-> 0, idt_base |-> 0],
             regs |-> kvm_regs_default]
(***************************************************************************)
(* Specifications.  Each runs one part of the program and holds the other  *)
(* parts in a fixed state.                                                 *)
(***************************************************************************)
\* the bus while the UART runs: COM1 alone on a release build
BusIdle ==
    /\ overflow_checks = FALSE
    /\ devices = <<[base |-> base_port, len |-> 8]>>
    /\ panicked = FALSE
    /\ busLast = [op |-> "new", port |-> 0, range |-> PortRangeFrom(0, 0),
                  ret |-> "Ok", hres |-> "Ok", called |-> <<>>, bufIn |-> NoData,
                  bufOut |-> NoData]

Init == UartInit /\ BusIdle /\ ProcInit /\ AllocIdle /\ CopyIdle /\ BootIdle
            /\ CpuIdle /\ EntryIdle
Next == UartRead \/ UartWrite \/ UartQueueRx
Spec == Init /\ [][Next]_vars

InitBus == BusInit /\ UartInit /\ ProcInit /\ AllocIdle /\ CopyIdle /\ BootIdle
            /\ CpuIdle /\ EntryIdle
NextBus == BusAddDevice \/ BusRead \/ BusWrite
SpecBus == InitBus /\ [][NextBus]_vars

InitProc == ProcInit /\ UartInit /\ BusIdle /\ AllocIdle /\ CopyIdle /\ BootIdle
            /\ CpuIdle /\ EntryIdle
NextProc ==
    \/ CpuI8042Write \/ CpuI8042Read \/ CpuLeave \/ GuestRunJoin
    \/ StdinRead \/ StdinEnd \/ InputByte
SpecProc == InitProc /\ [][NextProc]_vars

\* The threads of the process are scheduled fairly: a join whose thread has
\* ended returns, and main works through the chunk it has read.  What the
\* guest does on a VCPU and what the terminal delivers are not the
\* program's to decide and carry no fairness.
SpecProcFair ==
    /\ InitProc /\ [][NextProc]_vars
    /\ WF_vars(GuestRunJoin)
    /\ WF_vars(InputByte)

InitAlloc == AllocInit /\ CopyIdle /\ UartInit /\ BusIdle /\ ProcInit /\ BootIdle
            /\ CpuIdle /\ EntryIdle
NextAlloc == MemRawAlloc \/ MemAlloc \/ MemAllocArray
SpecAlloc == InitAlloc /\ [][NextAlloc]_vars

InitCopy == CopyInit /\ AllocIdle /\ UartInit /\ BusIdle /\ ProcInit /\ BootIdle
            /\ CpuIdle /\ EntryIdle
NextCopy == MemCopyToGuest
SpecCopy == InitCopy /\ [][NextCopy]_vars

InitLoad == LoadInit /\ AcpiIdle /\ LayoutIdle /\ UartInit /\ BusIdle /\ ProcInit
            /\ AllocIdle /\ CopyIdle
            /\ CpuIdle /\ EntryIdle
NextLoad == BootLoad
SpecLoad == InitLoad /\ [][NextLoad]_vars

InitBzImage == BzImageInit /\ AcpiIdle /\ LayoutIdle /\ UartInit /\ BuildIdle
               /\ ProcInit /\ AllocIdle /\ CopyIdle
            /\ CpuIdle /\ EntryIdle
SpecBzImage == InitBzImage /\ [][NextLoad]_vars

InitAcpi == AcpiInit /\ LoadIdle /\ LayoutIdle /\ UartInit /\ BusIdle /\ ProcInit
            /\ AllocIdle /\ CopyIdle
            /\ CpuIdle /\ EntryIdle
NextAcpi == BootConfigureAcpi
SpecAcpi == InitAcpi /\ [][NextAcpi]_vars

InitLayout == LayoutInit /\ LoadIdle /\ AcpiIdle /\ UartInit /\ BusIdle
              /\ ProcInit /\ AllocIdle /\ CopyIdle
            /\ CpuIdle /\ EntryIdle
NextLayout == BootConfigureMemory
SpecLayout == InitLayout /\ [][NextLayout]_vars


InitCpu == CpuInit /\ EntryIdle /\ UartInit /\ BusIdle /\ ProcInit /\ AllocIdle
           /\ CopyIdle /\ BootIdle
NextCpu ==
    \/ \E t \in CpuThreads :
          \/ CpuRun(t) \/ CpuExit(t) \/ CpuLockHub(t) \/ CpuRangeLock(t)
          \/ CpuRange(t) \/ CpuDeviceLock(t) \/ CpuHandler(t)
          \/ CpuUnlockHub(t)
    \/ ReaderRead \/ ReaderLock \/ ReaderByte \/ ReaderUnlock
SpecCpu == InitCpu /\ [][NextCpu]_vars

\* the steps of a started port access, and of a started run of queue_rx calls
CpuAccess(t) ==
    \/ CpuLockHub(t) \/ CpuRangeLock(t) \/ CpuRange(t)
    \/ CpuDeviceLock(t) \/ CpuHandler(t) \/ CpuUnlockHub(t)
ReaderQueue == ReaderLock \/ ReaderByte \/ ReaderUnlock

\* Every thread that can take a step keeps being scheduled, and a thread
\* waiting for a Mutex that is free again and again gets it in the end.
\* When vcpu.run() and stdin.read() return is for the guest and the
\* terminal to decide.
SpecCpuFair ==
    /\ InitCpu /\ [][NextCpu]_vars
    /\ \A t \in CpuThreads : SF_vars(CpuAccess(t))
    /\ SF_vars(ReaderQueue)

InitEntry == EntryInit /\ CpuIdle /\ UartInit /\ BusIdle /\ ProcInit /\ AllocIdle
             /\ CopyIdle /\ BootIdle
NextEntry == CpuSetup
SpecEntry == InitEntry /\ [][NextEntry]_vars

(***************************************************************************)
(* Statements about the UART.                                              *)
(***************************************************************************)
\* the level last driven on the UART's IRQ line (deasserted before any emission)
LineAsserted == irq_line /= <<>> /\ irq_line[Len(irq_line)]
RdiPending(s) == HasBit(s.ier, UART_IER_RDI) /\ HasBit(s.lsr, UART_LSR_DR)
ThriPending(s) == HasBit(s.ier, UART_IER_THRI) /\ HasBit(s.lsr, UART_LSR_TEMT)
Dlab == HasBit(serial.lcr, UART_LCR_DLAB)
Loop == HasBit(serial.mcr, UART_MCR_LOOP)
\* the access made in the current state, on the current host
Now(buf, failAt) == Machine(serial, irq_line, stdout, buf, failAt)

\* C1: after every access the IRQ line is asserted exactly when
\* (IER.RDI and LSR.DR) or (IER.THRI and LSR.TEMT), and irq_state holds the
\* IIR flags of exactly those two conditions.
C1_IrqFollowsState ==
    /\ LineAsserted <=> (RdiPending(serial) \/ ThriPending(serial))
    /\ serial.irq_state = (IF RdiPending(serial) THEN UART_IIR_RDI ELSE 0)
                          + (IF ThriPending(serial) THEN UART_IIR_THRI ELSE 0)
\* the line is asserted for received data alone, with the transmitter interrupt off
C1_Witness ==
    /\ LineAsserted
    /\ serial.irq_state = UART_IIR_RDI
    /\ serial.rx_buf /= <<>>
    /\ ~HasBit(serial.ier, UART_IER_THRI)

\* C2: the levels emitted on the UART's IRQ alternate assert, deassert,
\* assert, ... starting with an assert.
C2_EmissionsAlternate ==
    \A i \in 1 .. Len(irq_line) : irq_line[i] = (i % 2 = 1)
\* a third emission has been made
C2_Witness == Len(irq_line) >= 3

\* C3: while no stdout write has failed, host stdout holds exactly the bytes
\* written to base+0 with LOOP and DLAB clear, in order, each delivered when
\* its write returned.
C3_StdoutIsTxStream == ~stdoutFailed => stdout = txWritten
\* three bytes, not all equal, delivered with the transmitter interrupt enabled
C3_Witness ==
    /\ ~stdoutFailed
    /\ Len(stdout) = 3
    /\ stdout[1] /= stdout[2]
    /\ HasBit(serial.ier, UART_IER_THRI)

\* C4 as stated: after IER := THRI and three bytes to base+0, LSR = TEMT|THRE
\* and one assert followed by one deassert has been emitted.
C4_AssertDeassertCycle ==
    scen = 4 => /\ serial.lsr = UART_LSR_TEMT + UART_LSR_THRE
                /\ irq_line = <<TRUE, FALSE>>
\* C4 amended: after IER := THRI and three bytes to base+0, LSR = TEMT|THRE
\* and exactly one assert and no deassert has been emitted.
C4_AssertOnly ==
    scen = 4 => /\ serial.lsr = UART_LSR_TEMT + UART_LSR_THRE
                /\ irq_line = <<TRUE>>
C4_Witness == scen = 4 /\ Len(stdout) = 3

\* what a write of b to base+0 does to the RX FIFO and LSR.DR under loopback
LoopbackEffect(m, b) ==
    IF Len(serial.rx_buf) < FIFO_LEN
    THEN m.s.rx_buf = Append(serial.rx_buf, b) /\ HasBit(m.s.lsr, UART_LSR_DR)
    ELSE m.s.rx_buf = serial.rx_buf
\* C5: with LOOP set and DLAB clear, a write of b to base+0 appends
\* b to a non-full RX FIFO and sets LSR.DR, drops b when the RX FIFO is
\* full, and writes nothing to host stdout.
C5_LoopbackNoStdout ==
    (Loop /\ ~Dlab) =>
        \A b \in TxData, failAt \in FailAt :
            LET m == Serial_write(Now(b, failAt), base_port, b)
            IN LoopbackEffect(m, b) /\ m.out = stdout
\* C6: queue_rx(b) appends b and sets LSR.DR exactly when LOOP is clear and
\* the RX FIFO is not full, and otherwise leaves the RX FIFO unchanged; a
\* read of base+0 with DLAB clear returns and removes the oldest byte, and
\* on an empty RX FIFO leaves the data buffer unchanged; no other read
\* touches the RX FIFO.
C6_RxFifo ==
    /\ \A b \in RxData, failAt \in FailAt :
           LET m == queue_rx(Now(b, failAt), b)
           IN IF ~Loop /\ Len(serial.rx_buf) < FIFO_LEN
              THEN m.s.rx_buf = Append(serial.rx_buf, b) /\ HasBit(m.s.lsr, UART_LSR_DR)
              ELSE m.s.rx_buf = serial.rx_buf /\ m.s.lsr = serial.lsr
    /\ \A port \in UartPorts, buf \in ReadBuf, failAt \in 0 .. 1 :
           LET m == Serial_read(Now(buf, failAt), port)
           IN IF port = base_port /\ ~Dlab
              THEN IF serial.rx_buf = <<>>
                   THEN m.buf = buf /\ m.s.rx_buf = <<>>
                   ELSE m.buf = Head(serial.rx_buf) /\ m.s.rx_buf = Tail(serial.rx_buf)
              ELSE m.s.rx_buf = serial.rx_buf
\* two different bytes wait in the RX FIFO, which is full, with LOOP clear
C6_Witness ==
    /\ ~Loop /\ ~Dlab
    /\ Len(serial.rx_buf) = FIFO_LEN
    /\ serial.rx_buf[1] /= serial.rx_buf[2]

\* C7: a read of base+3 returns the byte the guest has just written to
\* base+3, whatever DLAB is.
C7_LcrReadsBack ==
    \A v \in WriteData(UART_LCR, Dlab), buf \in ReadBuf :
        LET w == Serial_write(Now(v, 0), base_port + UART_LCR, v)
            r == Serial_read(Machine(w.s, w.irq, w.out, buf, 0), base_port + UART_LCR)
        IN r.buf = v

(***************************************************************************)
(* Statements about the port-I/O bus.                                      *)
(***************************************************************************)
\* port p lies in the range [base, base+len)
InRange(r, p) == r.base <= p /\ p < r.base + r.len
\* the ranges of r1 and r2 have a port in common
SharePort(r1, r2) ==
    LET lo == IF r1.base > r2.base THEN r1.base ELSE r2.base
        hi == IF r1.base + r1.len < r2.base + r2.len
              THEN r1.base + r1.len ELSE r2.base + r2.len
    IN lo < hi
\* the registered devices whose range contains port p
Owners(p) == {j \in 1 .. Len(devices) : InRange(devices[j], p)}

\* C8: after any sequence of add_device calls no port lies in the ranges of
\* two registered devices.
C8_RangesDisjoint ==
    \A i, j \in 1 .. Len(devices) : i /= j => ~SharePort(devices[i], devices[j])

\* C9: add_device returns DeviceRangeOverlap and leaves the devices unchanged
\* when the new range shares a port with a registered one, and otherwise
\* succeeds and appends the device.
C9_AddDeviceRejectsOverlap ==
    ~panicked =>
        \A range \in DevRanges :
            LET r == add_device(range)
            IN IF \E i \in 1 .. Len(devices) : SharePort(range, devices[i])
               THEN r.ret = "DeviceRangeOverlap" /\ r.devices = devices
               ELSE r.ret = "Ok" /\ r.devices = Append(devices, range)

\* C10: a port access calls the handler of exactly the one registered device
\* whose range contains the port and returns its result; when no range
\* contains the port it calls no handler, succeeds and leaves the buffer.
C10_DispatchToOwner ==
    busLast.op \in {"read", "write"} =>
        IF Owners(busLast.port) = {}
        THEN /\ busLast.called = <<>>
             /\ busLast.ret = "Ok"
             /\ busLast.bufOut = busLast.bufIn
        ELSE /\ \E j \in 1 .. Len(devices) :
                    Owners(busLast.port) = {j} /\ busLast.called = <<j>>
             /\ busLast.ret = busLast.hres

(***************************************************************************)
(* Statements about the process.                                           *)
(***************************************************************************)
AllCpusLeft == \A i \in 1 .. NumCpus : cpus[i] # "running"
Terminated == process.state = "exited"

\* C11: once every VCPU thread has left its run loop, the process
\* eventually terminates, with no further byte or end-of-file on stdin.
\* Guest::run returns on its detached thread and main stays in stdin.read.
C11_TerminatesAfterCpus == AllCpusLeft ~> Terminated

\* the bytes main's loop has worked through
Processed == Slice(stdin.bytes, 0, Len(stdin.bytes) - Len(input.buf))

\* whether the escape flag is set after the first n bytes of s
RECURSIVE Armed(_, _)
Armed(s, n) == IF n = 0 THEN FALSE ELSE s[n] = CTRL_A /\ ~Armed(s, n - 1)

\* the bytes of s that are neither an arming 0x01 nor the 'x' that follows one
RECURSIVE Forwarded(_, _)
Forwarded(s, n) ==
    IF n = 0 THEN <<>>
    ELSE IF s[n] = CTRL_A /\ ~Armed(s, n - 1) THEN Forwarded(s, n - 1)
    ELSE IF s[n] = LetterX /\ Armed(s, n - 1) THEN Forwarded(s, n - 1)
    ELSE Append(Forwarded(s, n - 1), s[n])

EndsWithEscape(s) ==
    Len(s) >= 2 /\ s[Len(s)] = LetterX /\ Armed(s, Len(s) - 1)

\* C12: the escape flag lives across read chunks.  However the terminal's
\* bytes are cut into chunks, 0x01 followed by 'x' ends the input loop, and
\* 0x01 followed by another byte queues only that byte and clears the flag.
C12_EscapeAcrossChunks ==
    process.by # "queue_rx_err" =>
        /\ queued = Forwarded(Processed, Len(Processed))
        /\ (process.by = "escape") = EndsWithEscape(Processed)
        /\ process.by # "escape" =>
              input.escape = Armed(Processed, Len(Processed))

\* 0x01 closed one chunk, 'x' opened the next, and the loop ended
C12_Witness ==
    /\ process.by = "escape"
    /\ Len(Processed) - 1 = stdin.chunkStart
    /\ queued # <<>>

IsReset(a) ==
    /\ a.op = "write"
    /\ a.port = I8042_COMMAND_REG
    /\ a.data # <<>> /\ Head(a.data) = I8042_CMD_SYSTEM_RESET

\* C13: a write whose first byte is 0xfe to port 0x64 ends the process with
\* status 0 before the write returns to the VCPU loop; every other read or
\* write on 0x60..0x64 succeeds and changes nothing.
C13_I8042Reset ==
    i8042Last.op # "none" =>
        IF IsReset(i8042Last)
        THEN /\ process = Exited(0, "i8042")
             /\ i8042Last.ret = "never"
        ELSE /\ process.by # "i8042"
             /\ i8042Last.ret = "Ok"
             /\ i8042Last.bufOut = i8042Last.data

C13_Witness ==
    /\ IsReset(i8042Last)
    /\ process = Exited(0, "i8042")
    /\ Len(i8042Last.data) > 1

(***************************************************************************)
(* Statements about the guest memory helpers.                              *)
(***************************************************************************)
RangesDisjoint(a, b) ==
    a.size = 0 \/ b.size = 0 \/ a.addr + a.size <= b.addr
    \/ b.addr + b.size <= a.addr

C15_CopyToGuest ==
    guestmem.ret # "none" =>
        LET m == guestmem
            n == Len(m.bytes)
            fits == m.addr + n <= Len(m.before)
        IN  /\ (m.ret = "Ok") = fits
            /\ ~fits => m.ret = "OutOfGuestMemory" /\ m.memory = m.before
            /\ Len(m.memory) = Len(m.before)
            /\ fits => \A i \in 1 .. Len(m.before) :
                  m.memory[i] = IF i > m.addr /\ i <= m.addr + n
                                THEN m.bytes[i - m.addr] ELSE m.before[i]

\* a copy that ends exactly at the end of memory, over bytes written before
C15_Witness ==
    /\ guestmem.ret = "Ok"
    /\ Len(guestmem.bytes) = 2
    /\ guestmem.addr + 2 = Len(guestmem.before)
    /\ guestmem.before[Len(guestmem.before)] # 0
    /\ guestmem.memory # guestmem.before

(***************************************************************************)
(* Statements about the kernel loader.                                     *)
(***************************************************************************)
IsElf(image) == image.class \in {"ELF64", "ELF32"}
Loaded == loaded.op = "loaded"

\* a PT_LOAD segment whose range [p_paddr, p_paddr + p_memsz) reaches past
\* the end of guest memory
ReachesPastEnd(image) ==
    \E i \in 1 .. Len(image.segs) :
        image.segs[i].p_paddr + image.segs[i].p_memsz > LoadMemSize

\* a PT_LOAD segment whose file bytes do not fit inside guest memory
FileBytesDoNotFit(image) ==
    \E i \in 1 .. Len(image.segs) :
        image.segs[i].p_paddr + image.segs[i].p_filesz > LoadMemSize

\* C16: Bootable::load always returns a Bootable or an error value; an ELF
\* image with a PT_LOAD segment reaching past the end of guest memory, be it
\* only with its zero-filled tail, is reported as an error and never aborts
\* the process.
C16_LoadNeverAborts ==
    Loaded =>
        /\ loaded.boot.result.ret \in {"Ok", "Err"}
        /\ IsElf(loaded.image) /\ ReachesPastEnd(loaded.image) =>
              loaded.boot.result.ret = "Err"

\* C17: a header-valid ELF image with a PT_LOAD segment whose file bytes do
\* not fit inside guest memory makes Bootable::load fail with
\* OutOfGuestMemory.
C17_OutOfGuestMemory ==
    Loaded /\ IsElf(loaded.image) /\ FileBytesDoNotFit(loaded.image) =>
        loaded.boot.result = LoadErr("OutOfGuestMemory")

\* an image with a boot_params whose setup header passes the three checks
IsBzImage(image) ==
    /\ image.len >= BootParamsSize
    /\ image.hdr.header = SETUP_HEADER_MAGIC
    /\ image.hdr.version >= 518
    /\ image.hdr.loadflags % 2 = 1

\* the protocol the order of precedence gives an image, "none" for an
\* image that is neither ELF nor bzImage
Precedence(image) ==
    IF image.class = "ELF64"
    THEN IF image.note # "none" THEN "Pvh" ELSE "Linux64"
    ELSE IF image.class = "ELF32"
    THEN IF image.magic THEN "Multiboot" ELSE "Linux32"
    ELSE IF IsBzImage(image) THEN "Linux32" ELSE "none"

\* C18: the protocol is chosen in a fixed order: valid ELF64 with the Xen
\* note of type 0x12 gives Pvh, any other valid ELF64 Linux64, valid ELF32
\* with the Multiboot magic Multiboot, any other valid ELF32 Linux32, a
\* bzImage Linux32, and anything else fails with InvalidKernelImageFormat.
\* An ELF64 image is never given Multiboot.
C18_ProtocolPrecedence ==
    Loaded =>
        /\ loaded.boot.result.ret = "Ok" =>
              loaded.boot.result.protocol = Precedence(loaded.image)
        /\ Precedence(loaded.image) = "none" =>
              loaded.boot.result = LoadErr("InvalidKernelImageFormat")
        /\ loaded.boot.result.err = "InvalidKernelImageFormat" =>
              Precedence(loaded.image) = "none"
        /\ loaded.image.class = "ELF64" =>
              loaded.boot.result.protocol # "Multiboot"

(***************************************************************************)
(* Statements about the ACPI tables, read back from guest memory.          *)
(***************************************************************************)
\* the byte at guest address a after the copies made: zero where none wrote
AcpiByte(a) ==
    LET hits == {i \in 1 .. Len(acpi.written) :
                    /\ a >= acpi.written[i].addr
                    /\ a < acpi.written[i].addr + Len(acpi.written[i].bytes)}
    IN  IF hits = {} THEN 0
        ELSE LET i == CHOOSE h \in hits : \A g \in hits : g <= h
             IN  acpi.written[i].bytes[a - acpi.written[i].addr + 1]

\* the sum, modulo 256, of the n bytes from guest address a
RECURSIVE AcpiSum(_, _)
AcpiSum(a, n) ==
    IF n = 0 THEN 0
    ELSE IF n = 1 THEN AcpiByte(a)
    ELSE LET h == n \div 2 IN (AcpiSum(a, h) + AcpiSum(a + h, n - h)) % 256

\* the little-endian number in the n bytes from guest address a
RECURSIVE AcpiWord(_, _)
AcpiWord(a, n) == IF n = 0 THEN 0 ELSE AcpiByte(a) + 256 * AcpiWord(a + 1, n - 1)

\* where the tables say they are, and how long
XsdtAddr == AcpiWord(RSDP_ADDR + 24, 4)
MadtAddr == AcpiWord(XsdtAddr + SizeofTableHeader, 4)

RsdpSumsZero ==
    /\ AcpiSum(RSDP_ADDR, ACPI_RSDP_CHECKSUM_LENGTH) = 0
    /\ AcpiSum(RSDP_ADDR, AcpiWord(RSDP_ADDR + 20, 4)) = 0
XsdtSumsZero == AcpiSum(XsdtAddr, AcpiWord(XsdtAddr + 4, 4)) = 0
MadtSumsZero == AcpiSum(MadtAddr, AcpiWord(MadtAddr + 4, 4)) = 0

\* C19: after configure_acpi, for every num_cpus >= 1, the bytes of each
\* ACPI table sum to zero modulo 256: the RSDP over its first 20 bytes and
\* over its full length, the XSDT over header and MADT pointer, the MADT over
\* its whole declared length.
C19_AcpiChecksums ==
    acpi.ret = "Ok" => RsdpSumsZero /\ XsdtSumsZero /\ MadtSumsZero

(***************************************************************************)
(* Statements about the boot layout.                                       *)
(***************************************************************************)
\* the end of the ACPI tables of a guest with one CPU
AcpiTablesEnd ==
    RSDP_ADDR + SizeofRsdp + SizeofTableHeader + 8 + SizeofTableMadt
    + SizeofMadtIoApic + SizeofMadtLocalApic

Intersects(r, lo, hi) == r.lo < hi /\ lo < r.hi

\* C20: for every memory_size and both layouts, the ranges written by
\* configure_memory intersect neither the ACPI tables at 0xe0000 nor any
\* address at or above 0x100000.
C20_LayoutDisjoint ==
    layout.op = "configured" =>
        \A r \in layout.ranges :
            /\ ~Intersects(r, RSDP_ADDR, AcpiTablesEnd)
            /\ r.hi <= HIGH_MEMORY_START

\* the entry guest memory holds at addr after the writes: that of the last
\* run that wrote there, zero where none did
RECURSIVE ReadEntry(_, _, _)
ReadEntry(written, k, addr) ==
    IF k = 0 THEN NoEntry
    ELSE LET r == written[k]
         IN  IF r.lo <= addr /\ addr < r.hi /\ (addr - r.lo) % r.width = 0
             THEN EntryValue(r.kind, (addr - r.lo) \div r.width)
             ELSE ReadEntry(written, k - 1, addr)
EntryAt(addr) == ReadEntry(layout.written, Len(layout.written), addr)

Present(e) == HasBit(e.flags, 1)
Writable(e) == HasBit(e.flags, 2)
PageSize(e) == HasBit(e.flags, 128)
Fault == [ok |-> FALSE, frame |-> 0, writable |-> FALSE, size |-> "none"]

\* the two-level walk of 32-bit paging for the 4 KiB page number `page` of a
\* linear address, from the page directory at cr3 = PAGE_TABLE_ADDR
Walk32(page) ==
    LET pde == EntryAt(PAGE_TABLE_ADDR + 4 * (page \div 1024))
        pte == EntryAt(pde.frame * 4096 + 4 * (page % 1024))
    IN  IF ~ Present(pde) \/ PageSize(pde) THEN Fault
        ELSE IF ~ Present(pte) THEN Fault
        ELSE [ok |-> TRUE, frame |-> pte.frame,
              writable |-> Writable(pde) /\ Writable(pte), size |-> "4K"]

\* the walk of 4-level paging for a page below 4 GiB, from the PML4 at cr3 =
\* PAGE_TABLE_ADDR, ending at a page directory entry with PS set
Walk64(page) ==
    LET pml4e == EntryAt(PAGE_TABLE_ADDR + 8 * (page \div 134217728))
        pdpte == EntryAt(pml4e.frame * 4096 + 8 * ((page \div 262144) % 512))
        pde == EntryAt(pdpte.frame * 4096 + 8 * ((page \div 512) % 512))
    IN  IF ~ Present(pml4e) THEN Fault
        ELSE IF ~ Present(pdpte) \/ PageSize(pdpte) THEN Fault
        ELSE IF ~ Present(pde) \/ ~ PageSize(pde) THEN Fault
        ELSE [ok |-> TRUE, frame |-> pde.frame + (page % 512),
              writable |-> Writable(pml4e) /\ Writable(pdpte) /\ Writable(pde),
              size |-> "2M"]

\* the first, the second and the last 4 KiB page of every 2 MiB page below
\* 4 GiB; the same and those around the middle of every 4 MiB below n * 4 MiB
Pages64 == {512 * k + j : k \in 0 .. 2047, j \in {0, 1, 511}}
Pages32(n) ==
    {1024 * d + j : d \in 0 .. n - 1, j \in {0, 1, 511, 512, 1023}}
Mapped(w, page, size) ==
    w.ok /\ w.frame = page /\ w.writable /\ w.size = size

ExeEnd(image) ==
    IF IsElf(image)
    THEN LET ends == {image.segs[i].p_paddr + image.segs[i].p_memsz :
                        i \in 1 .. Len(image.segs)} \cup {0}
         IN  CHOOSE e \in ends : \A x \in ends : x <= e
    ELSE HIGH_MEMORY_START + image.len
            - 512 * (1 + IF image.hdr.setup_sects = 0 THEN 4
                         ELSE image.hdr.setup_sects)

\* the 1 MiB-aligned address allocated for the initrd
InitrdAddr ==
    next_multiple_of(ExeEnd(loaded.image) + WithNul(loaded.params.cmdline),
                     1048576)

\* write_linux_boot_params was called with an initrd and got as far as
\* allocating its address
InitrdAllocated ==
    /\ Loaded
    /\ loaded.boot.wlbp.ret # "none"
    /\ loaded.params.initrd # <<>>
    /\ loaded.params.cmdline <= loaded.boot.wlbp.hdr.cmdline_size
    /\ ~ (loaded.params.cmdline # 0
          /\ CopyFails(WithNul(loaded.params.cmdline), ExeEnd(loaded.image),
                       loaded.memsize))

InitrdWritten ==
    \E i \in 1 .. Len(loaded.boot.wlbp.writes) :
        loaded.boot.wlbp.writes[i].what = "initrd"

\* C21: when the address allocated for the initrd is above initrd_addr_max,
\* write_linux_boot_params returns InitrdTooLarge with size the initrd
\* length and max_size initrd_addr_max - addr and writes no initrd byte;
\* when it is not above and guest memory has room, the initrd is written at
\* that address and ramdisk_image and ramdisk_size record address and length.
C21_InitrdTooLarge ==
    InitrdAllocated =>
        LET w == loaded.boot.wlbp
            len == loaded.params.initrd[1]
        IN  IF InitrdAddr > w.hdr.initrd_addr_max
            THEN /\ w.ret = "Err" /\ w.err = "InitrdTooLarge"
                 /\ w.size = len
                 /\ w.max_size = Usize(0, w.hdr.initrd_addr_max - InitrdAddr)
                 /\ ~ InitrdWritten
            ELSE ~ CopyFails(len, InitrdAddr, loaded.memsize) =>
                 /\ \E i \in 1 .. Len(w.writes) :
                       w.writes[i] = Copied("initrd", 0, InitrdAddr, len)
                 /\ w.hdr.ramdisk_image = InitrdAddr
                 /\ w.hdr.ramdisk_size = len

\* the three checks of the setup header
HeaderChecksPass(hdr) ==
    hdr.header = SETUP_HEADER_MAGIC /\ hdr.version >= 518
    /\ hdr.loadflags % 2 = 1

\* the bytes of the setup: (s + 1) * 512 with s = setup_sects, or 4 for 0
SetupSize(hdr) ==
    (1 + IF hdr.setup_sects = 0 THEN 4 ELSE hdr.setup_sects) * 512

\* the file holds a whole boot_params, guest memory has room for what is
\* copied, and the command line and the initrd, if any, were accepted
BzLoadable ==
    /\ loaded.image.len >= BootParamsSize
    /\ ~ CopyFails(loaded.image.len - SetupSize(loaded.image.hdr),
                   HIGH_MEMORY_START, loaded.memsize)
    /\ loaded.boot.wlbp.ret \in {"none", "Ok"}

\* C27: for an image that is not a valid ELF and whose setup header passes
\* the three checks, load copies the image bytes from offset (s + 1) * 512 to
\* the end of the image to 0x100000 and returns Linux32 with entry_addr =
\* code32_start and params_addr at or above the end of the copy; an image
\* failing any of the checks is rejected with InvalidKernelImageFormat.
C27_BzImageLoad ==
    Loaded /\ ~ IsElf(loaded.image) =>
        LET hdr == loaded.image.hdr
            len == loaded.image.len - SetupSize(hdr)
        IN  IF HeaderChecksPass(hdr)
            THEN BzLoadable =>
                 /\ loaded.boot.result = LoadOk("Linux32")
                 /\ loaded.boot.entry_addr = hdr.code32_start
                 /\ loaded.boot.params_addr >= HIGH_MEMORY_START + len
                 /\ Len(loaded.boot.writes) > 0
                 /\ loaded.boot.writes[1]
                      = Copied("kernel", SetupSize(hdr), HIGH_MEMORY_START, len)
            ELSE loaded.boot.result = LoadErr("InvalidKernelImageFormat")

(***************************************************************************)
(* Statements about the VCPU run loop.                                     *)
(***************************************************************************)
\* thread t is between two calls of vcpu.run(), or has left the loop
BetweenRuns(t) == vcpu[t].pc \in {"run", "done"}

\* C22: in Cpu::run, a run failing with EAGAIN or EINTR is retried without
\* a look at the exit reason; a port-I/O exit is dispatched to the hub
\* exactly once, as a read or a write, before the VCPU is run again, and a
\* device error ends the loop with that error; a halt or shutdown exit ends
\* the loop with Ok; an internal-error exit ends the loop; every other exit
\* reason leaves the loop running.
C22_RunLoop ==
    \A t \in CpuThreads :
        LET c == vcpu[t] IN
        /\ c.run_res \in {"EAGAIN", "EINTR"} =>
              c.pc = "run" /\ c.exit_reason = "none" /\ c.dispatched = 0
        /\ c.exit_reason = "KVM_EXIT_IO" =>
              /\ c.dispatched <= 1
              /\ BetweenRuns(t) =>
                    /\ c.dispatched = 1
                    /\ c.op = IF c.direction = "KVM_EXIT_IO_IN" THEN "read"
                              ELSE "write"
                    /\ c.pc = "done" <=> c.hres = "Err"
                    /\ c.pc = "done" => c.ret = "Err(device)"
        /\ c.exit_reason \in {"KVM_EXIT_HLT", "KVM_EXIT_SHUTDOWN"} =>
              /\ c.pc \in {"exit", "done"} /\ c.dispatched = 0
              /\ c.pc = "done" => c.ret = "Ok"
        /\ c.exit_reason = "KVM_EXIT_INTERNAL_ERROR" =>
              c.pc \in {"exit", "done"} /\ c.dispatched = 0
        /\ c.exit_reason = "KVM_EXIT_MMIO" =>
              c.pc \in {"exit", "run"} /\ c.ret = "none" /\ c.dispatched = 0

\* a VCPU is about to be run again after a port write was dispatched once;
\* another has left the loop on a device error
C22_Witness ==
    /\ \E t \in CpuThreads :
          vcpu[t].pc = "run"
          /\ vcpu[t].exit_reason = "KVM_EXIT_IO" /\ vcpu[t].op = "write"
          /\ vcpu[t].dispatched = 1
    /\ \E t \in CpuThreads :
          vcpu[t].pc = "done" /\ vcpu[t].ret = "Err(device)"

(***************************************************************************)
(* Statements about the locks.                                             *)
(***************************************************************************)
DeviceLocks == Locks \ {HubLock}
Held(t) == {l \in Locks : mutex[l] = t}

\* thread t has started a port access and not completed it
InAccess(t) ==
    vcpu[t].pc \in {"lock_hub", "range_lock", "range", "device_lock",
                    "handler", "unlock_hub"}
\* the input thread has bytes to hand to queue_rx
InQueueRx == reader.pc \in {"lock", "queue"}

\* a step inside a started port access or a started run of queue_rx calls
OperationStep == ReaderQueue \/ \E t \in CpuThreads : CpuAccess(t)

LockOrder ==
    /\ \A t \in CpuThreads :
          /\ Held(t) \cap DeviceLocks # {} => mutex[HubLock] = t
          /\ Cardinality(Held(t) \cap DeviceLocks) <= 1
    /\ Held(Main) \subseteq {"serial"}

NoDeadlock ==
    ~ exited /\ (InQueueRx \/ \E t \in CpuThreads : InAccess(t)) =>
        ENABLED OperationStep

EntrySet == entry.op = "set"

\* the registers a protocol is given, over kvm_regs_default
ExpectedRegs(bootable) ==
    LET common == [kvm_regs_default EXCEPT !.rip = bootable.entry_addr,
                       !.rsp = 524288, !.rflags = 2]
    IN  IF bootable.protocol \in {"Linux32", "Linux64"}
        THEN [common EXCEPT !.rsi = bootable.params_addr]
        ELSE IF bootable.protocol = "Pvh"
        THEN [common EXCEPT !.rbx = bootable.params_addr]
        ELSE [common EXCEPT !.rax = 732803074,
                            !.rbx = bootable.params_addr]

\* C24: for every protocol, entry_addr and params_addr the general
\* registers at VCPU entry are rip = entry_addr, rsp = 0x80000, rflags = 0x2
\* (IF, TF and VM clear); Linux32 has rsi = params_addr and rbp = rdi = rbx =
\* 0, Linux64 rsi = params_addr, Pvh rbx = params_addr, Multiboot rax =
\* 0x2BADB002 and rbx = params_addr; every register not named is 0.
C24_EntryRegs ==
    EntrySet =>
        /\ entry.regs = ExpectedRegs(entry.bootable)
        /\ ~ HasBit(entry.regs.rflags, 256)
        /\ ~ HasBit(entry.regs.rflags, 512)
        /\ ~ HasBit(entry.regs.rflags, 131072)

\* a Multiboot VCPU set up with a parameter address that is not 0
C24_Witness ==
    /\ EntrySet /\ entry.bootable.protocol = "Multiboot"
    /\ entry.bootable.params_addr # 0 /\ entry.regs.rbx # 0
    /\ entry.regs.rax = 732803074

\* C25: after configure_sregs, for every fetched value: under Linux64 CR0
\* has PE and PG, CR4 has PAE, EFER has LME and LMA; under Linux32 and
\* Multiboot CR0 has PE and not PG, CR4 has no PAE, EFER has neither LME nor
\* LMA, and every other bit of the three keeps its fetched value; under Pvh
\* CR0 is exactly 1, CR4 exactly 0 and EFER has neither LME nor LMA.
C25_EntrySregs ==
    EntrySet =>
        LET p == entry.bootable.protocol
            f == entry.fetched
            s == entry.sregs
        IN  /\ p = "Linux64" =>
                  /\ {0, 31} \subseteq s.cr0
                  /\ 5 \in s.cr4
                  /\ {8, 10} \subseteq s.efer
            /\ p \in {"Linux32", "Multiboot"} =>
                  /\ 0 \in s.cr0 /\ 31 \notin s.cr0
                  /\ 5 \notin s.cr4
                  /\ s.efer \cap {8, 10} = {}
                  /\ s.cr0 \ {0, 31} = f.cr0 \ {0, 31}
                  /\ s.cr4 \ {5} = f.cr4 \ {5}
                  /\ s.efer \ {8, 10} = f.efer \ {8, 10}
            /\ p = "Pvh" =>
                  /\ s.cr0 = {0}
                  /\ s.cr4 = {}
                  /\ s.efer \cap {8, 10} = {}

\* a Pvh VCPU whose fetched CR0, CR4 and EFER had other bits set
C25_Witness ==
    /\ EntrySet /\ entry.bootable.protocol = "Pvh"
    /\ 30 \in entry.fetched.cr0 /\ 7 \in entry.fetched.cr4
    /\ 10 \in entry.fetched.efer /\ entry.sregs.cr0 = {0}

(***************************************************************************)
(* Statements about the UART between its operations.                       *)
(***************************************************************************)
\* nothing waits in the TX FIFO and LSR says so
Drained(s) ==
    /\ s.tx_buf = <<>>
    /\ HasBit(s.lsr, UART_LSR_TEMT) /\ HasBit(s.lsr, UART_LSR_THRE)

\* every register access and queue_rx call that can be made now and returns
\* Ok leaves the TX FIFO drained
DrainedAfterOk ==
    /\ \A port \in ReadPorts, buf \in ReadBuf, failAt \in FailAt :
           LET m == Serial_read(Now(buf, failAt), port)
           IN m.ok => Drained(m.s)
    /\ \A port \in UartPorts, failAt \in FailAt :
           \A data \in WriteData(port - base_port, Dlab) :
               LET m == Serial_write(Now(data, failAt), port, data)
               IN m.ok => Drained(m.s)
    /\ \A b \in RxData, failAt \in FailAt :
           LET m == queue_rx(Now(b, failAt), b)
           IN m.ok => Drained(m.s)

\* C28: after every guest register access and every queue_rx call that
\* completes successfully the TX FIFO is empty and LSR has TEMT and THRE
\* set; no state between operations has THRE or TEMT clear or holds an
\* undelivered TX byte.
C28_TxDrained == Drained(serial) /\ DrainedAfterOk

\* C29: after every guest register access and every queue_rx call, in any
\* order, the RX FIFO holds at most FIFO_LEN bytes and LSR.DR is set if and
\* only if the RX FIFO is not empty.
C29_RxFifoDr ==
    /\ Len(serial.rx_buf) <= FIFO_LEN
    /\ HasBit(serial.lsr, UART_LSR_DR) <=> serial.rx_buf /= <<>>

\* the RX FIFO has been filled through the loopback, after a stdout write
\* has failed
C29_Witness ==
    /\ Loop /\ stdoutFailed
    /\ Len(serial.rx_buf) = FIFO_LEN /\ HasBit(serial.lsr, UART_LSR_DR)

\* bytes the guest writes to base+2: none, enable, each clear bit, both, what
\* a Linux driver writes (0xC7), all ones
FcrBytes == {0, 1, 2, 4, 6, 199, 255}
Level(irq) == irq /= <<>> /\ irq[Len(irq)]
IirRead(s) == BitOr(s.iir, UART_IIR_FIFO_ENABLED_16550A)

\* C30: a guest write of any byte to base+2, the clear-RCVR and clear-XMIT
\* bits included, changes only the stored FCR byte: the RX FIFO, the TX FIFO,
\* LSR, IER, LCR, MCR, the value read from IIR and the level of the IRQ
\* line are the same after the write as before it.
C30_FcrWriteFrame ==
    \A v \in FcrBytes, failAt \in FailAt :
        LET m == Serial_write(Now(v, failAt), base_port + UART_FCR, v)
        IN  /\ m.s.fcr = v
            /\ m.s.rx_buf = serial.rx_buf /\ m.s.tx_buf = serial.tx_buf
            /\ m.s.lsr = serial.lsr /\ m.s.ier = serial.ier
            /\ m.s.lcr = serial.lcr /\ m.s.mcr = serial.mcr
            /\ IirRead(m.s) = IirRead(serial)
            /\ Level(m.irq) = Level(irq_line)
====
